---- MODULE Spec2Model ----
(***************************************************************************)
(* The incident healing pipeline of src/agents: the LangGraph workflow     *)
(* Detection -> RCA -> Remediation -> Verification of graph.py, with the   *)
(* four stage nodes, the three routing guards, the four end nodes and the  *)
(* exception boundary of run_healing_workflow.                             *)
(*                                                                         *)
(* Conventions.                                                            *)
(*  - Scores and confidences are Python floats in the source; here they    *)
(*    are integers in hundredths (0.3 is 30, 0.15 is 15, 0.95 is 95).      *)
(*  - Elapsed times (time.time() differences) are integers drawn from      *)
(*    Durations.                                                           *)
(*  - An event is the record [stage, agent, action] of the source's event  *)
(*    dict; the timestamp is left out, and "details" is kept for the       *)
(*    Orchestrator's summary events only (no code reads event details).    *)
(*  - Collaborator responses (metric queries, device commands, topology    *)
(*    lookups, the LLM call) are inputs of the stage that asks for them.   *)
(*  - pc is the node or routing function the compiled graph runs next.     *)
(***************************************************************************)
EXTENDS Integers, Sequences, FiniteSets, TLC

VARIABLES
    pc,             \* position of run_healing_workflow / the graph
    state,          \* the IncidentState of the graph run
    initial_state,  \* the value of create_initial_state kept by the caller
    llm_mode,       \* the LLM collaborator of this run (see LlmModes)
    exc,            \* text of the exception in flight ("" when none)
    result,         \* the dict run_healing_workflow returned (NoResult before)
    trace,          \* history: the nodes that completed, in order
    emitted,        \* history: the events returned by completed nodes, in order
    failedVerifications \* history: verification executions that failed

vars == <<pc, state, initial_state, llm_mode, exc, result, trace, emitted, failedVerifications>>

(* ------------------------------ bounds -------------------------------- *)

\* Rows a metric query returns at most.
MaxResults == 1

(* ------------------------- program constants -------------------------- *)

UnknownBias == 10
AnomalyWeight == 30
ClaimBonus == 40
StoppedBonusSession == 30
StoppedBonusTraffic == 20
MaxDetectionConfidence == 100
FaultConfirmedAbove == 50
DetectionThreshold == 30
RcaThreshold == 40
HighRiskRcaThreshold == 80
MaxVerificationFailures == 2
RcaBaseConfidence == 30
RcaEvidenceWeight == 15
MaxRcaConfidence == 95
ErrorRateCritical == 100
ErrorRateWarning == 50
DeviationSigma == 3

None == "None"
NoResult == [stage |-> "none"]
Discarded == [stage |-> "discarded"]

(* ------------------------------ helpers ------------------------------- *)

Min(a, b) == IF a < b THEN a ELSE b

\* Sequences over S of length at most n.
BSeq(S, n) == UNION {[1..k -> S] : k \in 0..n}

IsPrefix(s, t) == Len(s) <= Len(t) /\ SubSeq(t, 1, Len(s)) = s

\* sum(1 for e in s if P(e))
Count(s, P(_)) == Cardinality({i \in 1..Len(s) : P(s[i])})

(* --------------------------- state.py --------------------------------- *)

KnownFaults == <<"bgp_link_flap", "bgp_session_instability", "traffic_drop",
                 "cpu_spike", "memory_exhaustion">>

KnownFaultSet == {KnownFaults[i] : i \in 1..Len(KnownFaults)}

\* The values of the fault_type field after classification.
FaultTypes == KnownFaultSet \cup {"unknown"}

\* What a trigger may claim: a known type, "unknown", or any other text.
ClaimedFaults == KnownFaultSet \cup {"unknown", "other"}

ReducerKeys == {"events", "internal_logs"}

create_initial_state(fault_type) ==
    [incident_id |-> "inc-1",
     fault_type |-> fault_type,
     stage |-> "detection",
     device_id |-> "device-1",
     device_name |-> "core-1",
     device_type |-> "core",
     severity |-> "medium",
     detection_confidence |-> 0,
     detection_method |-> "",
     metric_deviations |-> <<>>,
     root_cause |-> "",
     rca_confidence |-> 0,
     rca_hypothesis |-> "",
     rca_evidence |-> <<>>,
     affected_devices |-> <<"device-1">>,
     remediation_plan |-> <<>>,
     remediation_actions |-> <<>>,
     remediation_risk |-> "low",
     verification_checks |-> <<>>,
     verification_passed |-> FALSE,
     ttd_seconds |-> 0,
     ttr_seconds |-> 0,
     tttr_seconds |-> 0,
     events |-> <<>>,
     internal_logs |-> <<>>,
     error |-> None]

\* Variant of Merge without the operator.add reducers: every key overwritten.
MergeLost(s, update) ==
    [k \in DOMAIN s |-> IF k \in DOMAIN update THEN update[k] ELSE s[k]]

\* The graph's merge of a node's partial update into the state: a key
\* annotated with operator.add is concatenated, any other key is overwritten.
Merge(s, update) ==
    [k \in DOMAIN s |->
        IF k \in DOMAIN update
        THEN IF k \in ReducerKeys THEN s[k] \o update[k] ELSE update[k]
        ELSE s[k]]

Event(stage, agent, action) == [stage |-> stage, agent |-> agent, action |-> action]

(* ------------------------ tools/prometheus.py ------------------------- *)

QueryError == [status |-> "error", result |-> <<>>]

\* The responses of a metric query whose rows carry values of V.
QueryResponses(V) ==
    {QueryError} \cup {[status |-> "success", result |-> r] : r \in BSeq(V, MaxResults)}

BgpStateValues == {0, 1}
ErrorRateValues == {23, 75, 156}

RECURSIVE BgpAnomalies(_)
BgpAnomalies(rows) ==
    IF rows = <<>> THEN <<>>
    ELSE (IF Head(rows) = 0
          THEN <<[metric |-> "bgp_session_state", value |-> Head(rows),
                  severity |-> "critical"]>>
          ELSE <<>>) \o BgpAnomalies(Tail(rows))

RECURSIVE ErrorRateAnomalies(_)
ErrorRateAnomalies(rows) ==
    IF rows = <<>> THEN <<>>
    ELSE (IF Head(rows) >= ErrorRateCritical
          THEN <<[metric |-> "interface_errors_rate", value |-> Head(rows),
                  severity |-> "critical"]>>
          ELSE IF Head(rows) >= ErrorRateWarning
          THEN <<[metric |-> "interface_errors_rate", value |-> Head(rows),
                  severity |-> "warning"]>>
          ELSE <<>>) \o ErrorRateAnomalies(Tail(rows))

detect_anomalies(bgp_result, error_result) ==
    (IF bgp_result.status = "success" THEN BgpAnomalies(bgp_result.result) ELSE <<>>)
    \o (IF error_result.status = "success"
        THEN ErrorRateAnomalies(error_result.result) ELSE <<>>)

(* -------------------------- nodes/detection.py ------------------------ *)

SignatureMetrics(ft) ==
    CASE ft = "bgp_link_flap" -> {"bgp_session_state", "link_flap_count"}
      [] ft = "bgp_session_instability" -> {"bgp_session_state", "bgp_prefixes_received"}
      [] ft = "traffic_drop" -> {"traffic_utilization", "packet_loss"}
      [] ft = "cpu_spike" -> {"cpu_utilization"}
      [] ft = "memory_exhaustion" -> {"memory_utilization"}
      [] OTHER -> {}

\* Iteration order of the evidence_scores dict: the signature keys, then "unknown".
ScoreOrder == KnownFaults \o <<"unknown">>

\* Python floats are IEEE-754 binary64. A float in [0, 4) is held exactly:
\* [hi, lo] stands for (hi * 2^29 + lo) * 2^-57.
Limb == 2^29

\* The unit in the last place, in units of 2^-57: 2^(e - 52) for a value in
\* [2^e, 2^(e + 1)).
Ulp(hi) ==
    IF hi >= 2^29 THEN 64
    ELSE IF hi >= 2^28 THEN 32
    ELSE IF hi >= 2^27 THEN 16
    ELSE IF hi >= 2^26 THEN 8
    ELSE IF hi >= 2^25 THEN 4
    ELSE IF hi >= 2^24 THEN 2
    ELSE 1

\* hi * 2^29 + lo with lo brought back under 2^29.
Carry(hi, lo) ==
    IF lo = Limb THEN [hi |-> hi + 1, lo |-> 0] ELSE [hi |-> hi, lo |-> lo]

\* Round hi * 2^29 + lo (plus a non-zero fraction of a unit when sticky) to
\* a multiple of u: to nearest, ties to even.
RoundTo(hi, lo, sticky, u) ==
    Carry(hi,
          IF \/ (lo % u) * 2 > u
             \/ (lo % u) * 2 = u /\ (sticky \/ (lo \div u) % 2 = 1)
          THEN lo - (lo % u) + u
          ELSE lo - (lo % u))

\* The float nearest to the exact value hi * 2^29 + lo, lo < 2^30.
RoundEven(hi, lo, sticky) ==
    RoundTo(hi + lo \div Limb, lo % Limb, sticky, Ulp(hi + lo \div Limb))

\* The float a decimal literal of h hundredths denotes (0.3 is Literal(30)):
\* h / 100 by long division, 14 + 14 bits into hi, 14 + 15 bits into lo.
LiteralLow(hi, t3, t4) ==
    RoundEven(hi, (t3 \div 100) * 2^15 + t4 \div 100, t4 % 100 # 0)

LiteralHigh(whole, t1, t2) ==
    LiteralLow(whole * 2^28 + (t1 \div 100) * 2^14 + t2 \div 100,
               (t2 % 100) * 2^14, (((t2 % 100) * 2^14) % 100) * 2^15)

Literal(h) ==
    LiteralHigh(h \div 100, (h % 100) * 2^14, (((h % 100) * 2^14) % 100) * 2^14)

\* a + b
FloatAdd(a, b) == RoundEven(a.hi + b.hi, a.lo + b.lo, FALSE)

\* a * 1.5, the exact product being a + a / 2
TimesOneAndAHalf(a) ==
    RoundEven(a.hi + a.hi \div 2, a.lo + (a.hi % 2) * 2^28 + a.lo \div 2,
              a.lo % 2 = 1)

\* a < b
FloatLess(a, b) == a.hi < b.hi \/ (a.hi = b.hi /\ a.lo < b.lo)

\* min(a, b)
FloatMin(a, b) == IF FloatLess(b, a) THEN b ELSE a

\* The hundredth nearest to a float: the unit the state's confidences are
\* held in.
Hundredths(a) == ((a.hi \div 2^10) * 100 + 2^17) \div 2^18

\* A wrong weighting: a critical anomaly counts for nothing.
AnomalyScore_critical_ignored(severity) ==
    IF severity = "critical" THEN Literal(0) ELSE Literal(AnomalyWeight)

\* 0.3 * severity_weight, severity_weight = 1.5 if critical else 1.0
AnomalyScore(severity) ==
    IF severity = "critical" THEN TimesOneAndAHalf(Literal(AnomalyWeight))
    ELSE Literal(AnomalyWeight)

\* The loop over the anomalies, for one fault type: += in list order.
RECURSIVE AnomalyEvidence(_, _, _)
AnomalyEvidence(ft, anomalies, score) ==
    IF anomalies = <<>> THEN score
    ELSE AnomalyEvidence(ft, Tail(anomalies),
            IF Head(anomalies).metric \in SignatureMetrics(ft)
            THEN FloatAdd(score, AnomalyScore(Head(anomalies).severity))
            ELSE score)

\* if claimed_fault in FAULT_SIGNATURES: evidence_scores[claimed_fault] += 0.4
ClaimEvidence(ft, claimed_fault, score) ==
    IF claimed_fault = ft THEN FloatAdd(score, Literal(ClaimBonus)) ELSE score

\* A wrong bonus: a stopped device speaks for traffic_drop alone.
StoppedEvidence_traffic_only(ft, gns3_status, score) ==
    IF gns3_status = "stopped" /\ ft = "traffic_drop"
    THEN FloatAdd(score, Literal(StoppedBonusTraffic))
    ELSE score

\* if gns3_status == "stopped": += 0.3 and += 0.2
StoppedEvidence(ft, gns3_status, score) ==
    IF gns3_status = "stopped" /\ ft = "bgp_session_instability"
    THEN FloatAdd(score, Literal(StoppedBonusSession))
    ELSE IF gns3_status = "stopped" /\ ft = "traffic_drop"
    THEN FloatAdd(score, Literal(StoppedBonusTraffic))
    ELSE score

\* Variant of evidence_scores without the bias toward "unknown".
evidence_scores_unbiased(claimed_fault, anomalies, gns3_status) ==
    [ft \in FaultTypes |->
        IF ft = "unknown" THEN Literal(0)
        ELSE StoppedEvidence(ft, gns3_status,
                ClaimEvidence(ft, claimed_fault,
                    AnomalyEvidence(ft, anomalies, Literal(0))))]

evidence_scores(claimed_fault, anomalies, gns3_status) ==
    [ft \in FaultTypes |->
        IF ft = "unknown" THEN Literal(UnknownBias)
        ELSE StoppedEvidence(ft, gns3_status,
                ClaimEvidence(ft, claimed_fault,
                    AnomalyEvidence(ft, anomalies, Literal(0))))]

\* max(scores, key=...): the first key, in dict order, that holds the maximum.
ArgMax(scores) ==
    LET first == CHOOSE i \in 1..Len(ScoreOrder) :
                    /\ \A j \in 1..Len(ScoreOrder) :
                          ~FloatLess(scores[ScoreOrder[i]], scores[ScoreOrder[j]])
                    /\ \A j \in 1..(i - 1) :
                          FloatLess(scores[ScoreOrder[j]], scores[ScoreOrder[i]])
    IN ScoreOrder[first]

_classify_fault(claimed_fault, anomalies, gns3_status) ==
    LET scores == evidence_scores(claimed_fault, anomalies, gns3_status)
        best_match == ArgMax(scores)
    IN [fault_type |-> best_match,
        confidence |-> Hundredths(FloatMin(scores[best_match],
                                           Literal(MaxDetectionConfidence))),
        method |-> IF anomalies # <<>> THEN "metric_anomaly_detection"
                   ELSE IF claimed_fault # "unknown" THEN "operator_reported"
                   ELSE "proactive_analysis"]

RECURSIVE Deviations(_)
Deviations(anomalies) ==
    IF anomalies = <<>> THEN <<>>
    ELSE <<[metric_name |-> Head(anomalies).metric, baseline |-> 0,
            current |-> Head(anomalies).value, threshold |-> 0,
            deviation_sigma |-> DeviationSigma,
            severity |-> Head(anomalies).severity]>> \o Deviations(Tail(anomalies))

detection_node(s, anomalies, gns3_status, ttd) ==
    LET c == _classify_fault(s.fault_type, anomalies, gns3_status)
    IN [stage |-> "rca",
        fault_type |-> c.fault_type,
        detection_confidence |-> c.confidence,
        detection_method |-> c.method,
        metric_deviations |-> Deviations(anomalies),
        ttd_seconds |-> ttd,
        events |-> <<Event("detection", "DetectionAgent",
                           IF c.confidence > FaultConfirmedAbove
                           THEN "fault_confirmed" ELSE "fault_analysis")>>]

\* What the LLM collaborator does in a run: there is no client (get_llm
\* returns None), its calls answer, or its calls raise.
LlmModes == {"none", "answers", "raises"}

detection_node_with_ai(s, anomalies, gns3_status, ttd, llm) ==
    LET base_result == detection_node(s, anomalies, gns3_status, ttd)
    IN IF llm = "answers"
       THEN [base_result EXCEPT !.events =
                @ \o <<Event("detection", "DetectionAgent", "ai_classification")>>]
       ELSE base_result

detection_wrapper(s, anomalies, gns3_status, ttd, llm) ==
    IF llm = "none"
    THEN detection_node(s, anomalies, gns3_status, ttd)
    ELSE detection_node_with_ai(s, anomalies, gns3_status, ttd, llm)

(* ----------------------------- nodes/rca.py --------------------------- *)

\* Device command output, as the sequence of its words.
BgpOutputs == {<<>>, <<"10.0.0.2", "01:23:45", "12">>, <<"10.0.0.4", "never", "Active">>}
IntfOutputs == {<<>>, <<"Ethernet0", "up", "up">>, <<"Ethernet8", "up", "Down">>}

\* str.lower() on the words the model uses.
Lower(w) ==
    CASE w = "Down" -> "down"
      [] w = "Failover" -> "failover"
      [] w = "Restart" -> "restart"
      [] w = "Clear" -> "clear"
      [] w = "Increase" -> "increase"
      [] w = "Enable" -> "enable"
      [] w = "Monitor" -> "monitor"
      [] w = "If" -> "if"
      [] w = "Verify" -> "verify"
      [] w = "Check" -> "check"
      [] w = "Force" -> "force"
      [] w = "Identify" -> "identify"
      [] w = "Apply" -> "apply"
      [] w = "Gather" -> "gather"
      [] w = "Escalate" -> "escalate"
      [] OTHER -> w

\* "word in text" for a text given as its words.
Contains(text, w) == \E i \in 1..Len(text) : text[i] = w
ContainsLower(text, w) == \E i \in 1..Len(text) : Lower(text[i]) = w

CommonCauses(ft) ==
    CASE ft = "bgp_link_flap" -> <<"Physical link degradation (fiber, transceiver)">>
      [] ft = "bgp_session_instability" -> <<"Route policy misconfiguration">>
      [] ft = "traffic_drop" -> <<"Routing table corruption">>
      [] ft = "cpu_spike" -> <<"Route churn/instability">>
      [] ft = "memory_exhaustion" -> <<"Route table overflow">>
      [] OTHER -> <<"Unknown cause">>

\* A wrong analysis: the confidence is not clamped.
_analyze_root_cause_unclamped(fault_type, metric_deviations, bgp_output, intf_output) ==
    LET evidence ==
            [i \in 1..Len(metric_deviations) |->
                [kind |-> "metric", metric_name |-> metric_deviations[i].metric_name]]
            \o (IF Contains(bgp_output, "Active") \/ Contains(bgp_output, "never")
                THEN <<[kind |-> "bgp_neighbor_down"]>> ELSE <<>>)
            \o (IF ContainsLower(intf_output, "down")
                THEN <<[kind |-> "interface_down"]>> ELSE <<>>)
        most_likely == Head(CommonCauses(fault_type))
    IN [root_cause |-> most_likely,
        hypothesis |-> [evidence_count |-> Len(evidence), cause |-> most_likely],
        evidence |-> evidence,
        confidence |-> RcaBaseConfidence + Len(evidence) * RcaEvidenceWeight]

_analyze_root_cause(fault_type, metric_deviations, bgp_output, intf_output) ==
    LET evidence ==
            [i \in 1..Len(metric_deviations) |->
                [kind |-> "metric", metric_name |-> metric_deviations[i].metric_name]]
            \o (IF Contains(bgp_output, "Active") \/ Contains(bgp_output, "never")
                THEN <<[kind |-> "bgp_neighbor_down"]>> ELSE <<>>)
            \o (IF ContainsLower(intf_output, "down")
                THEN <<[kind |-> "interface_down"]>> ELSE <<>>)
        most_likely == Head(CommonCauses(fault_type))
    IN [root_cause |-> most_likely,
        hypothesis |-> [evidence_count |-> Len(evidence), cause |-> most_likely],
        evidence |-> evidence,
        confidence |-> Min(RcaBaseConfidence + Len(evidence) * RcaEvidenceWeight,
                           MaxRcaConfidence)]

_generate_remediation_plan(fault_type) ==
    CASE fault_type = "bgp_link_flap" ->
            << <<"1.", "Increase", "BGP", "hold", "timer", "to", "180", "seconds">>,
               <<"2.", "Enable", "BFD", "for", "rapid", "failure", "detection">>,
               <<"3.", "Monitor", "for", "stability", "for", "60", "seconds">>,
               <<"4.", "If", "still", "flapping,", "shutdown", "and", "re-enable",
                 "interface">> >>
      [] fault_type = "bgp_session_instability" ->
            << <<"1.", "Clear", "BGP", "session", "to", "reset", "state">>,
               <<"2.", "Verify", "BGP", "neighbor", "configuration">>,
               <<"3.", "Check", "and", "adjust", "prefix", "limits", "if", "needed">>,
               <<"4.", "Monitor", "session", "state", "for", "30", "seconds">> >>
      [] fault_type = "traffic_drop" ->
            << <<"1.", "Check", "routing", "table", "integrity">>,
               <<"2.", "Failover", "traffic", "to", "backup", "path">>,
               <<"3.", "Clear", "routing", "table", "on", "affected", "device">>,
               <<"4.", "Force", "reconvergence">>,
               <<"5.", "Verify", "traffic", "restoration">> >>
      [] fault_type = "cpu_spike" ->
            << <<"1.", "Identify", "top", "CPU-consuming", "process">>,
               <<"2.", "Enable", "CoPP", "rate", "limiting">>,
               <<"3.", "Restart", "offending", "process", "if", "safe">>,
               <<"4.", "Monitor", "CPU", "for", "recovery">> >>
      [] fault_type = "memory_exhaustion" ->
            << <<"1.", "Clear", "stale", "routes", "and", "caches">>,
               <<"2.", "Apply", "route", "summarization">>,
               <<"3.", "Restart", "if", "memory", "doesn't", "recover">>,
               <<"4.", "Monitor", "memory", "utilization">> >>
      [] OTHER ->
            << <<"1.", "Gather", "additional", "diagnostics">>,
               <<"2.", "Escalate", "to", "human", "operator">> >>

HighRiskWords == {"restart", "reload", "failover", "shutdown"}

\* Variant of _assess_remediation_risk that rates a disruptive step high.
_assess_remediation_risk_high(plan) ==
    IF \E i \in 1..Len(plan) : \E w \in HighRiskWords : ContainsLower(plan[i], w)
    THEN "high" ELSE "low"

_assess_remediation_risk(plan) ==
    IF \E i \in 1..Len(plan) : \E w \in HighRiskWords : ContainsLower(plan[i], w)
    THEN "medium" ELSE "low"

\* The plan and its risk depend on the fault type alone: computed once per type.
RemediationPlans == [ft \in FaultTypes |-> _generate_remediation_plan(ft)]
PlanRisks == [ft \in FaultTypes |-> _assess_remediation_risk(RemediationPlans[ft])]

RcaLogTitles ==
    <<"Loading RCA Knowledge Base", "Gathering SONiC Diagnostics",
      "SONiC Diagnostic Results", "Analyzing Root Cause", "Root Cause Identified",
      "Remediation Plan Generated", "Risk Assessment Complete">>

\* A wrong RCA: it writes a fault type of its own into the incident.
rca_node_reclassifying(s, bgp_output, intf_output) ==
    LET a == _analyze_root_cause(s.fault_type, s.metric_deviations, bgp_output, intf_output)
    IN [stage |-> "remediation",
        fault_type |-> "unknown",
        root_cause |-> a.root_cause,
        rca_hypothesis |-> a.hypothesis,
        rca_evidence |-> a.evidence,
        rca_confidence |-> a.confidence,
        affected_devices |-> <<s.device_name>>,
        remediation_plan |-> RemediationPlans[s.fault_type],
        remediation_risk |-> PlanRisks[s.fault_type],
        events |-> <<Event("rca", "RCAAgent", "root_cause_identified")>>,
        internal_logs |-> RcaLogTitles]

rca_node(s, bgp_output, intf_output) ==
    LET a == _analyze_root_cause(s.fault_type, s.metric_deviations, bgp_output, intf_output)
    IN [stage |-> "remediation",
        root_cause |-> a.root_cause,
        rca_hypothesis |-> a.hypothesis,
        rca_evidence |-> a.evidence,
        rca_confidence |-> a.confidence,
        affected_devices |-> <<s.device_name>>,
        remediation_plan |-> RemediationPlans[s.fault_type],
        remediation_risk |-> PlanRisks[s.fault_type],
        events |-> <<Event("rca", "RCAAgent", "root_cause_identified")>>,
        internal_logs |-> RcaLogTitles]

\* A wrong enrichment: the model's answer replaces the computed confidence.
rca_node_with_ai_trusting(s, bgp_output, intf_output, llm) ==
    LET base_result == rca_node(s, bgp_output, intf_output)
    IN IF llm = "answers"
       THEN [base_result EXCEPT
                !.rca_hypothesis = [ai_response |-> "llm text"],
                !.rca_confidence = MaxRcaConfidence,
                !.events = @ \o <<Event("rca", "RCAAgent", "ai_analysis_complete")>>,
                !.internal_logs = @ \o <<"LLM RCA Analysis Request",
                                         "LLM RCA Analysis Response">>]
       ELSE [base_result EXCEPT
                !.internal_logs = @ \o <<"LLM RCA Analysis Request",
                                         "LLM RCA Analysis Failed">>]

rca_node_with_ai(s, bgp_output, intf_output, llm) ==
    LET base_result == rca_node(s, bgp_output, intf_output)
    IN IF llm = "answers"
       THEN [base_result EXCEPT
                !.rca_hypothesis = [ai_response |-> "llm text"],
                !.events = @ \o <<Event("rca", "RCAAgent", "ai_analysis_complete")>>,
                !.internal_logs = @ \o <<"LLM RCA Analysis Request",
                                         "LLM RCA Analysis Response">>]
       ELSE [base_result EXCEPT
                !.internal_logs = @ \o <<"LLM RCA Analysis Request",
                                         "LLM RCA Analysis Failed">>]

rca_wrapper(s, bgp_output, intf_output, llm) ==
    IF llm = "none"
    THEN rca_node(s, bgp_output, intf_output)
    ELSE rca_node_with_ai(s, bgp_output, intf_output, llm)

(* -------------------------- nodes/remediation.py ---------------------- *)

Action(action_type, risk) == [action_type |-> action_type, risk |-> risk]

\* Every playbook of a known fault type lists two actions.
PlaybookLength == 2

\* A wrong table: the first action of every playbook is rated high.
REMEDIATION_PLAYBOOKS_high_first(ft) ==
    CASE ft = "bgp_link_flap" ->
            <<Action("adjust_bgp_timers", "high"), Action("clear_interface_counters", "low")>>
      [] ft = "bgp_session_instability" ->
            <<Action("clear_bgp_session", "high"), Action("soft_reconfiguration", "low")>>
      [] ft = "traffic_drop" ->
            <<Action("failover_path", "high"), Action("adjust_bgp_weight", "low")>>
      [] ft = "cpu_spike" ->
            <<Action("enable_copp", "high"), Action("reduce_logging", "low")>>
      [] ft = "memory_exhaustion" ->
            <<Action("clear_route_cache", "high"), Action("clear_arp_cache", "low")>>
      [] OTHER -> <<>>

REMEDIATION_PLAYBOOKS(ft) ==
    CASE ft = "bgp_link_flap" ->
            <<Action("adjust_bgp_timers", "low"), Action("clear_interface_counters", "low")>>
      [] ft = "bgp_session_instability" ->
            <<Action("clear_bgp_session", "medium"), Action("soft_reconfiguration", "low")>>
      [] ft = "traffic_drop" ->
            <<Action("failover_path", "medium"), Action("adjust_bgp_weight", "low")>>
      [] ft = "cpu_spike" ->
            <<Action("enable_copp", "low"), Action("reduce_logging", "low")>>
      [] ft = "memory_exhaustion" ->
            <<Action("clear_route_cache", "low"), Action("clear_arp_cache", "low")>>
      [] OTHER -> <<>>

\* One action against the device or topology collaborator; ok is whether the
\* collaborator reported success (a raised exception is caught and is a failure).
_execute_action(action_def, device_name, ok) ==
    [action_type |-> action_def.action_type,
     target_device |-> device_name,
     executed |-> TRUE,
     success |-> ok]

\* A wrong loop: a high-risk action is executed whatever the incident's risk.
RECURSIVE RunPlaybook_no_skip(_, _, _, _)
RunPlaybook_no_skip(playbook, remediation_risk, device_name, outcomes) ==
    IF playbook = <<>> THEN <<>>
    ELSE LET r == _execute_action(Head(playbook), device_name, Head(outcomes))
         IN IF ~r.success /\ Head(playbook).risk = "high"
            THEN <<r>>
            ELSE <<r>> \o RunPlaybook_no_skip(Tail(playbook), remediation_risk,
                                              device_name, Tail(outcomes))

\* A wrong loop: a failed high-risk action does not end the sequence.
RECURSIVE RunPlaybook_no_abort(_, _, _, _)
RunPlaybook_no_abort(playbook, remediation_risk, device_name, outcomes) ==
    IF playbook = <<>> THEN <<>>
    ELSE IF remediation_risk = "low" /\ Head(playbook).risk = "high"
    THEN RunPlaybook_no_abort(Tail(playbook), remediation_risk, device_name,
                              Tail(outcomes))
    ELSE <<_execute_action(Head(playbook), device_name, Head(outcomes))>>
         \o RunPlaybook_no_abort(Tail(playbook), remediation_risk, device_name,
                                 Tail(outcomes))

\* The playbook loop: outcomes[i] is the collaborator's answer should action i run.
RECURSIVE RunPlaybook(_, _, _, _)
RunPlaybook(playbook, remediation_risk, device_name, outcomes) ==
    IF playbook = <<>> THEN <<>>
    ELSE LET action_def == Head(playbook)
             rest == Tail(playbook)
         IN IF remediation_risk = "low" /\ action_def.risk = "high"
            THEN RunPlaybook(rest, remediation_risk, device_name, Tail(outcomes))
            ELSE LET r == _execute_action(action_def, device_name, Head(outcomes))
                 IN IF ~r.success /\ action_def.risk = "high"
                    THEN <<r>>
                    ELSE <<r>> \o RunPlaybook(rest, remediation_risk, device_name,
                                              Tail(outcomes))

remediation_node(s, outcomes, ttr) ==
    LET actions_executed ==
            RunPlaybook(REMEDIATION_PLAYBOOKS(s.fault_type), s.remediation_risk,
                        s.device_name, outcomes)
        all_succeeded == \A i \in 1..Len(actions_executed) : actions_executed[i].success
    IN [stage |-> "verification",
        remediation_actions |-> actions_executed,
        ttr_seconds |-> ttr,
        events |-> <<Event("remediation", "RemediationAgent",
                           IF all_succeeded THEN "remediation_complete"
                           ELSE "remediation_partial")>>]

\* reversed(actions)
RECURSIVE Reverse(_)
Reverse(s) == IF s = <<>> THEN <<>> ELSE Reverse(Tail(s)) \o <<Head(s)>>

\* The loop of emergency_rollback over the reversed action list; answers[i]
\* is what sonic.enable_interface reports for interface i. An action record
\* here carries the interface its command names in the field "command".
RECURSIVE RollbackLoop(_, _)
RollbackLoop(actions, answers) ==
    IF actions = <<>> THEN <<>>
    ELSE LET action == Head(actions)
         IN (IF ~action.success THEN <<>>
             ELSE IF action.action_type = "shutdown_interface"
             THEN <<[action_type |-> "enable_interface",
                     success |-> answers[action.command],
                     original_action |-> action.action_type]>>
             ELSE <<>>) \o RollbackLoop(Tail(actions), answers)

\* Variant of emergency_rollback that walks the list front to back.
emergency_rollback_forward(s, answers) ==
    LET rollback_actions == RollbackLoop(s.remediation_actions, answers)
    IN [events |-> <<[stage |-> "remediation", agent |-> "RemediationAgent",
                      action |-> "emergency_rollback",
                      details |-> [rollback_actions |-> Len(rollback_actions),
                                   reason |-> "verification_failed"]]>>,
        remediation_actions |-> rollback_actions]

emergency_rollback(s, answers) ==
    LET rollback_actions == RollbackLoop(Reverse(s.remediation_actions), answers)
    IN [events |-> <<[stage |-> "remediation", agent |-> "RemediationAgent",
                      action |-> "emergency_rollback",
                      details |-> [rollback_actions |-> Len(rollback_actions),
                                   reason |-> "verification_failed"]]>>,
        remediation_actions |-> rollback_actions]

(* -------------------------- nodes/verification.py --------------------- *)

\* Metric values and expected conditions are strings in the source; here a
\* string is the sequence of its characters.
Digits == {"0", "1", "2", "3", "4", "5", "6", "7", "8", "9"}

DigitValue(c) ==
    CASE c = "0" -> 0 [] c = "1" -> 1 [] c = "2" -> 2 [] c = "3" -> 3 [] c = "4" -> 4
      [] c = "5" -> 5 [] c = "6" -> 6 [] c = "7" -> 7 [] c = "8" -> 8 [] c = "9" -> 9

RECURSIVE DigitsValue(_)
DigitsValue(cs) ==
    IF cs = <<>> THEN 0
    ELSE DigitsValue(SubSeq(cs, 1, Len(cs) - 1)) * 10 + DigitValue(cs[Len(cs)])

AllDigits(cs) == cs # <<>> /\ \A i \in 1..Len(cs) : cs[i] \in Digits

\* float(text) on whole numbers: [ok |-> FALSE] stands for ValueError.
ParseFloat(cs) ==
    IF AllDigits(cs) THEN [ok |-> TRUE, value |-> DigitsValue(cs)]
    ELSE IF cs # <<>> /\ Head(cs) = "-" /\ AllDigits(Tail(cs))
    THEN [ok |-> TRUE, value |-> 0 - DigitsValue(Tail(cs))]
    ELSE [ok |-> FALSE, value |-> 0]

LowerChar(c) ==
    CASE c = "U" -> "u" [] c = "P" -> "p" [] c = "D" -> "d" [] c = "O" -> "o"
      [] c = "W" -> "w" [] c = "N" -> "n" [] OTHER -> c

StrLower(cs) == [i \in 1..Len(cs) |-> LowerChar(cs[i])]

StartsWith(cs, prefix) ==
    Len(cs) >= Len(prefix) /\ SubSeq(cs, 1, Len(prefix)) = prefix

Drop(cs, n) == SubSeq(cs, n + 1, Len(cs))

_evaluate_condition(actual, expected) ==
    LET fallback == StrLower(actual) = StrLower(expected)
        a == ParseFloat(actual)
        Compare(n, Rel(_, _)) ==
            LET t == ParseFloat(Drop(expected, n))
            IN IF t.ok THEN Rel(a.value, t.value) ELSE fallback
        Gt(x, y) == x > y
        Lt(x, y) == x < y
        Ge(x, y) == x >= y
        Le(x, y) == x <= y
        Ne(x, y) == x # y
        Eq(x, y) == x = y
    IN IF ~a.ok THEN fallback
       ELSE IF StartsWith(expected, <<">">>) THEN Compare(1, Gt)
       ELSE IF StartsWith(expected, <<"<">>) THEN Compare(1, Lt)
       ELSE IF StartsWith(expected, <<">", "=">>) THEN Compare(2, Ge)
       ELSE IF StartsWith(expected, <<"<", "=">>) THEN Compare(2, Le)
       ELSE IF StartsWith(expected, <<"!", "=">>) THEN Compare(2, Ne)
       ELSE Compare(0, Eq)

Criterion(check_name, metric, expected, critical) ==
    [check_name |-> check_name, metric |-> metric, expected |-> expected,
     critical |-> critical]

VERIFICATION_CRITERIA(ft) ==
    CASE ft = "bgp_link_flap" ->
            <<Criterion("bgp_session_stable", "bgp_session_state", <<"1">>, TRUE),
              Criterion("no_new_flaps", "bgp_flap_count_1m", <<"0">>, TRUE),
              Criterion("interface_no_errors", "interface_error_rate",
                        <<"<", "1", "0">>, FALSE)>>
      [] ft = "bgp_session_instability" ->
            <<Criterion("bgp_session_established", "bgp_session_state", <<"1">>, TRUE),
              Criterion("prefixes_received", "bgp_prefixes_received", <<">", "0">>, TRUE)>>
      [] ft = "traffic_drop" ->
            <<Criterion("traffic_restored", "traffic_utilization", <<">", "5", "0">>, TRUE),
              Criterion("no_packet_loss", "packet_loss_rate", <<"<", "1">>, TRUE)>>
      [] ft = "cpu_spike" ->
            <<Criterion("cpu_normal", "cpu_utilization", <<"<", "8", "0">>, TRUE)>>
      [] ft = "memory_exhaustion" ->
            <<Criterion("memory_normal", "memory_utilization", <<"<", "8", "5">>, TRUE)>>
      [] OTHER -> <<>>

\* What one metric query of a check gives: a failed query, no rows, a raised
\* exception, or the value of the first row.
MetricValues == {<<"0">>, <<"1">>, <<"9", "0">>}
CheckResponses ==
    {[kind |-> k, value |-> <<>>] : k \in {"query_failed", "no_data", "exception"}}
    \cup {[kind |-> "value", value |-> v] : v \in MetricValues}

\* Variant of _run_verification_check that fails a check without a value.
_run_verification_check_strict(criterion, response) ==
    [check_name |-> criterion.check_name,
     expected |-> criterion.expected,
     passed |-> CASE response.kind = "value" ->
                        _evaluate_condition(response.value, criterion.expected)
                  [] OTHER -> FALSE]

_run_verification_check(criterion, response) ==
    [check_name |-> criterion.check_name,
     expected |-> criterion.expected,
     passed |-> CASE response.kind = "value" ->
                        _evaluate_condition(response.value, criterion.expected)
                  [] response.kind = "no_data" -> TRUE
                  [] response.kind = "query_failed" -> TRUE
                  [] OTHER -> FALSE]

\* What the topology lookup of the device gives: a node with a status, no
\* node, or a raised exception.
NodeResponses == {"started", "stopped", "node_not_found", "exception"}

_verify_gns3_state(response) ==
    [check_name |-> "gns3_node_status",
     expected |-> <<"s", "t", "a", "r", "t", "e", "d">>,
     passed |-> CASE response = "node_not_found" -> TRUE
                  [] response = "exception" -> FALSE
                  [] OTHER -> response = "started"]

\* Variant of verification_node whose event does not tell a failure from a
\* pass.
verification_node_untagged(s, results, gns3_verification, tttr) ==
    LET criteria == VERIFICATION_CRITERIA(s.fault_type)
        verification_results == results \o <<gns3_verification>>
        critical_passed ==
            \A i \in 1..Len(criteria) : criteria[i].critical => results[i].passed
        total_passed == Cardinality({i \in 1..Len(verification_results) :
                                        verification_results[i].passed})
        all_passed == critical_passed /\ total_passed * 10 >= Len(criteria) * 8
    IN [stage |-> IF all_passed THEN "resolved" ELSE "failed",
        verification_checks |-> verification_results,
        verification_passed |-> all_passed,
        tttr_seconds |-> tttr,
        events |-> <<Event("verification", "VerificationAgent",
                           "verification_complete")>>]

\* Variant of verification_node that asks for 80% of all checks run, the
\* topology check among them.
verification_node_all_checks(s, results, gns3_verification, tttr) ==
    LET criteria == VERIFICATION_CRITERIA(s.fault_type)
        verification_results == results \o <<gns3_verification>>
        critical_passed ==
            \A i \in 1..Len(criteria) : criteria[i].critical => results[i].passed
        total_passed == Cardinality({i \in 1..Len(verification_results) :
                                        verification_results[i].passed})
        all_passed == critical_passed
                        /\ total_passed * 10 >= Len(verification_results) * 8
    IN [stage |-> IF all_passed THEN "resolved" ELSE "failed",
        verification_checks |-> verification_results,
        verification_passed |-> all_passed,
        tttr_seconds |-> tttr,
        events |-> <<Event("verification", "VerificationAgent",
                           IF all_passed THEN "verification_passed"
                           ELSE "verification_failed")>>]

\* Variant of verification_node that passes only when every check passed.
verification_node_strict(s, results, gns3_verification, tttr) ==
    LET verification_results == results \o <<gns3_verification>>
        all_passed == \A i \in 1..Len(verification_results) :
                          verification_results[i].passed
    IN [stage |-> IF all_passed THEN "resolved" ELSE "failed",
        verification_checks |-> verification_results,
        verification_passed |-> all_passed,
        tttr_seconds |-> tttr,
        events |-> <<Event("verification", "VerificationAgent",
                           IF all_passed THEN "verification_passed"
                           ELSE "verification_failed")>>]

\* results[i] is what _run_verification_check returned for criterion i, and
\* gns3_verification what _verify_gns3_state returned.
verification_node(s, results, gns3_verification, tttr) ==
    LET criteria == VERIFICATION_CRITERIA(s.fault_type)
        verification_results == results \o <<gns3_verification>>
        critical_passed ==
            \A i \in 1..Len(criteria) : criteria[i].critical => results[i].passed
        total_passed == Cardinality({i \in 1..Len(verification_results) :
                                        verification_results[i].passed})
        \* total_passed >= len(criteria) * 0.8
        all_passed == critical_passed /\ total_passed * 10 >= Len(criteria) * 8
    IN [stage |-> IF all_passed THEN "resolved" ELSE "failed",
        verification_checks |-> verification_results,
        verification_passed |-> all_passed,
        tttr_seconds |-> tttr,
        events |-> <<Event("verification", "VerificationAgent",
                           IF all_passed THEN "verification_passed"
                           ELSE "verification_failed")>>]

(* ------------------------------ graph.py ------------------------------ *)

IsVerificationFailed(e) == e.action = "verification_failed"

\* Variant of should_continue_after_detection that never looks at the
\* confidence.
should_continue_after_detection_any_confidence(s) ==
    IF s.fault_type = "unknown" THEN "end_unconfirmed" ELSE "rca"

should_continue_after_detection(s) ==
    IF s.detection_confidence < DetectionThreshold \/ s.fault_type = "unknown"
    THEN "end_unconfirmed"
    ELSE "rca"

\* Variant of should_continue_after_rca without the high-risk rule.
should_continue_after_rca_no_risk_rule(s) ==
    IF s.rca_confidence < RcaThreshold THEN "end_no_action" ELSE "remediation"

\* A wrong guard: the high-risk bar applies to every plan.
should_continue_after_rca_cautious(s) ==
    IF s.rca_confidence < HighRiskRcaThreshold THEN "end_no_action" ELSE "remediation"

should_continue_after_rca(s) ==
    IF s.rca_confidence < RcaThreshold THEN "end_no_action"
    ELSE IF s.remediation_risk = "high" /\ s.rca_confidence < HighRiskRcaThreshold
    THEN "end_no_action"
    ELSE "remediation"

\* Variants of should_retry_or_end: one that never gives up, one that gives
\* up on the first failure.
should_retry_or_end_unbounded(s) ==
    IF s.verification_passed THEN "resolved" ELSE "retry_rca"

should_retry_or_end_no_retry(s) ==
    IF s.verification_passed THEN "resolved" ELSE "failed"

should_retry_or_end(s) ==
    LET verification_attempts == Count(s.events, IsVerificationFailed)
    IN IF s.verification_passed THEN "resolved"
       ELSE IF verification_attempts >= MaxVerificationFailures THEN "failed"
       ELSE "retry_rca"

SummaryEvent(stage, action, details) ==
    [stage |-> stage, agent |-> "Orchestrator", action |-> action, details |-> details]

\* A wrong unconfirmed terminal: it reports no error text.
end_unconfirmed_no_error(s) ==
    [stage |-> "failed",
     events |-> <<SummaryEvent("detection", "incident_unconfirmed",
                    [reason |-> "Low detection confidence or unknown fault type",
                     confidence |-> s.detection_confidence])>>]

end_unconfirmed(s) ==
    [stage |-> "failed",
     error |-> "Incident could not be confirmed with sufficient confidence",
     events |-> <<SummaryEvent("detection", "incident_unconfirmed",
                    [reason |-> "Low detection confidence or unknown fault type",
                     confidence |-> s.detection_confidence])>>]

end_no_action(s) ==
    [stage |-> "failed",
     error |-> "Remediation skipped due to low confidence or high risk",
     events |-> <<SummaryEvent("rca", "remediation_skipped",
                    [reason |-> "Low RCA confidence or high risk",
                     rca_confidence |-> s.rca_confidence,
                     risk |-> s.remediation_risk])>>]

\* Variant of end_resolved whose total leaves the verification time out.
end_resolved_partial_total(s) ==
    [stage |-> "resolved",
     events |-> <<SummaryEvent("resolved", "incident_resolved",
                    [total_time |-> s.ttd_seconds + s.ttr_seconds,
                     ttd |-> s.ttd_seconds,
                     ttr |-> s.ttr_seconds,
                     tttr |-> s.tttr_seconds,
                     fault_type |-> s.fault_type,
                     root_cause |-> s.root_cause])>>]

end_resolved(s) ==
    [stage |-> "resolved",
     events |-> <<SummaryEvent("resolved", "incident_resolved",
                    [total_time |-> s.ttd_seconds + s.ttr_seconds + s.tttr_seconds,
                     ttd |-> s.ttd_seconds,
                     ttr |-> s.ttr_seconds,
                     tttr |-> s.tttr_seconds,
                     fault_type |-> s.fault_type,
                     root_cause |-> s.root_cause])>>]

\* A wrong failed terminal: the Orchestrator chains the rollback itself.
end_failed_with_rollback(s) ==
    [stage |-> "failed",
     error |-> "Automated remediation unsuccessful, escalating to human operator",
     events |-> <<[stage |-> "remediation", agent |-> "RemediationAgent",
                   action |-> "emergency_rollback",
                   details |-> [rollback_actions |-> 0,
                                reason |-> "verification_failed"]],
                  SummaryEvent("failed", "incident_failed",
                    [reason |-> "Verification failed after multiple attempts",
                     fault_type |-> s.fault_type,
                     actions_taken |-> Len(s.remediation_actions)])>>]

end_failed(s) ==
    [stage |-> "failed",
     error |-> "Automated remediation unsuccessful, escalating to human operator",
     events |-> <<SummaryEvent("failed", "incident_failed",
                    [reason |-> "Verification failed after multiple attempts",
                     fault_type |-> s.fault_type,
                     actions_taken |-> Len(s.remediation_actions)])>>]

\* build_healing_graph: the targets of the three conditional edges.
DetectionEdge(route) ==
    CASE route = "rca" -> "rca"
      [] route = "end_unconfirmed" -> "end_unconfirmed"

RcaEdge(route) ==
    CASE route = "remediation" -> "remediation"
      [] route = "end_no_action" -> "end_no_action"

\* Variant of VerificationEdge whose retry edge skips the analysis.
VerificationEdge_retry_remediation(route) ==
    CASE route = "resolved" -> "end_resolved"
      [] route = "failed" -> "end_failed"
      [] route = "retry_rca" -> "remediation"

VerificationEdge(route) ==
    CASE route = "resolved" -> "end_resolved"
      [] route = "failed" -> "end_failed"
      [] route = "retry_rca" -> "rca"

StageNodes == {"detection", "rca", "remediation", "verification"}
EndNodes == {"end_unconfirmed", "end_no_action", "end_resolved", "end_failed"}
Guards == {"route_detection", "route_rca", "route_verification"}
GraphSteps == StageNodes \cup EndNodes \cup Guards

\* Elapsed seconds the stages measure (no decision reads them).
DetectionDurations == {1}
RemediationDurations == {2}
VerificationDurations == {4}

\* The updates a stage can return, over every answer of its collaborators.
AnomalyLists ==
    {detect_anomalies(bgp_result, error_result) :
        bgp_result \in QueryResponses(BgpStateValues),
        error_result \in QueryResponses(ErrorRateValues)}

DetectionUpdates(s, llm) ==
    {detection_wrapper(s, anomalies, gns3_status, ttd, llm) :
        anomalies \in AnomalyLists,
        gns3_status \in {"started", "stopped", "unknown"},
        ttd \in DetectionDurations}

RcaUpdates(s, llm) ==
    {rca_wrapper(s, bgp_output, intf_output, llm) :
        bgp_output \in BgpOutputs, intf_output \in IntfOutputs}

RemediationUpdates(s) ==
    {remediation_node(s, outcomes, ttr) :
        outcomes \in [1..Len(REMEDIATION_PLAYBOOKS(s.fault_type)) -> BOOLEAN],
        ttr \in RemediationDurations}

CheckResults(criterion) ==
    {_run_verification_check(criterion, response) : response \in CheckResponses}

RECURSIVE CheckResultLists(_)
CheckResultLists(criteria) ==
    IF criteria = <<>> THEN {<<>>}
    ELSE {<<first>> \o rest :
            first \in CheckResults(Head(criteria)),
            rest \in CheckResultLists(Tail(criteria))}

\* The check results depend on the fault type and the collaborators' answers
\* alone: computed once per type.
CheckResultTable == [ft \in FaultTypes |-> CheckResultLists(VERIFICATION_CRITERIA(ft))]
Gns3Results == {_verify_gns3_state(r) : r \in NodeResponses}

VerificationUpdates(s) ==
    {verification_node(s, results, gns3_verification, tttr) :
        results \in CheckResultTable[s.fault_type],
        gns3_verification \in Gns3Results,
        tttr \in VerificationDurations}

Init ==
    /\ \E fault_type \in ClaimedFaults :
          /\ initial_state = create_initial_state(fault_type)
          /\ state = create_initial_state(fault_type)
    /\ llm_mode \in LlmModes
    /\ pc = "detection"
    /\ exc = ""
    /\ result = NoResult
    /\ trace = <<>>
    /\ emitted = <<>>
    /\ failedVerifications = 0

\* A node returned `update`: the graph merges it and moves to `next`.
NodeDone(node, update, next) ==
    /\ state' = Merge(state, update)
    /\ pc' = next
    /\ trace' = Append(trace, node)
    /\ emitted' = emitted \o update.events
    /\ UNCHANGED <<initial_state, llm_mode, exc, result>>

Detection ==
    /\ pc = "detection"
    /\ \E update \in DetectionUpdates(state, llm_mode) :
          NodeDone("detection", update, "route_detection")
    /\ UNCHANGED failedVerifications

RouteDetection ==
    /\ pc = "route_detection"
    /\ pc' = DetectionEdge(should_continue_after_detection(state))
    /\ UNCHANGED <<state, initial_state, llm_mode, exc, result, trace, emitted, failedVerifications>>

Rca ==
    /\ pc = "rca"
    /\ \E update \in RcaUpdates(state, llm_mode) : NodeDone("rca", update, "route_rca")
    /\ UNCHANGED failedVerifications

RouteRca ==
    /\ pc = "route_rca"
    /\ pc' = RcaEdge(should_continue_after_rca(state))
    /\ UNCHANGED <<state, initial_state, llm_mode, exc, result, trace, emitted, failedVerifications>>

\* A wrong edge: Remediation hands over to the retry guard, past Verification.
Remediation_unverified ==
    /\ pc = "remediation"
    /\ \E update \in RemediationUpdates(state) :
          NodeDone("remediation", update, "route_verification")
    /\ UNCHANGED failedVerifications

Remediation ==
    /\ pc = "remediation"
    /\ \E update \in RemediationUpdates(state) :
          NodeDone("remediation", update, "verification")
    /\ UNCHANGED failedVerifications

Verification ==
    /\ pc = "verification"
    /\ \E update \in VerificationUpdates(state) :
          /\ NodeDone("verification", update, "route_verification")
          /\ failedVerifications' =
                IF update.verification_passed THEN failedVerifications
                ELSE failedVerifications + 1

RouteVerification ==
    /\ pc = "route_verification"
    /\ pc' = VerificationEdge(should_retry_or_end(state))
    /\ UNCHANGED <<state, initial_state, llm_mode, exc, result, trace, emitted, failedVerifications>>

EndUnconfirmed ==
    /\ pc = "end_unconfirmed"
    /\ NodeDone("end_unconfirmed", end_unconfirmed(state), "END")
    /\ UNCHANGED failedVerifications

EndNoAction ==
    /\ pc = "end_no_action"
    /\ NodeDone("end_no_action", end_no_action(state), "END")
    /\ UNCHANGED failedVerifications

EndResolved ==
    /\ pc = "end_resolved"
    /\ NodeDone("end_resolved", end_resolved(state), "END")
    /\ UNCHANGED failedVerifications

EndFailed ==
    /\ pc = "end_failed"
    /\ NodeDone("end_failed", end_failed(state), "END")
    /\ UNCHANGED failedVerifications

\* A node or guard raises: healing_workflow.invoke propagates the exception
\* and the state of the graph run is gone with it.
Raise ==
    /\ pc \in GraphSteps
    /\ pc' = "raised"
    /\ exc' = pc
    /\ state' = Discarded
    /\ UNCHANGED <<initial_state, llm_mode, result, trace, emitted, failedVerifications>>

\* run_healing_workflow, the try branch: return dict(final_state).
ReturnFinalState(s) == s

\* Variant of the except branch that reports the error but leaves the stage.
ErrorResult_stage_kept(initial, e) ==
    [initial EXCEPT !.error = e,
                    !.events = <<[stage |-> "error", agent |-> "Orchestrator",
                                  action |-> "workflow_error",
                                  details |-> [error |-> e]]>>]

\* run_healing_workflow, the except branch.
ErrorResult(initial, e) ==
    [initial EXCEPT !.stage = "failed",
                    !.error = e,
                    !.events = <<[stage |-> "error", agent |-> "Orchestrator",
                                  action |-> "workflow_error",
                                  details |-> [error |-> e]]>>]

Return ==
    /\ pc = "END"
    /\ result' = ReturnFinalState(state)
    /\ pc' = "returned"
    /\ UNCHANGED <<state, initial_state, llm_mode, exc, trace, emitted, failedVerifications>>

HandleException ==
    /\ pc = "raised"
    /\ result' = ErrorResult(initial_state, exc)
    /\ pc' = "returned"
    /\ UNCHANGED <<state, initial_state, llm_mode, exc, trace, emitted, failedVerifications>>

Next ==
    \/ Detection
    \/ RouteDetection
    \/ Rca
    \/ RouteRca
    \/ Remediation
    \/ Verification
    \/ RouteVerification
    \/ EndUnconfirmed
    \/ EndNoAction
    \/ EndResolved
    \/ EndFailed
    \/ Raise
    \/ Return
    \/ HandleException

Spec == Init /\ [][Next]_vars

(* --------- should_continue_after_detection over every input ----------- *)

\* The guard is a function of two fields of whatever state it is handed; its
\* table is checked over every confidence in hundredths and every fault type.
DetectionConfidences == 0..100

DetectionGuardInit ==
    /\ \E claimed \in ClaimedFaults, fault_type \in FaultTypes,
          confidence \in DetectionConfidences :
          /\ initial_state = create_initial_state(claimed)
          /\ state = [create_initial_state(claimed) EXCEPT
                         !.stage = "rca",
                         !.fault_type = fault_type,
                         !.detection_confidence = confidence]
    /\ llm_mode = "none"
    /\ pc = "route_detection"
    /\ exc = ""
    /\ result = NoResult
    /\ trace = <<"detection">>
    /\ emitted = <<>>
    /\ failedVerifications = 0

DetectionGuardNext ==
    \/ RouteDetection
    \/ EndUnconfirmed
    \/ Return

DetectionGuardSpec == DetectionGuardInit /\ [][DetectionGuardNext]_vars

(* ------------- should_continue_after_rca over every input ------------- *)

\* The guard is a function of two fields of whatever state it is handed; its
\* table is checked over every confidence in hundredths and every risk level.
RiskLevels == {"low", "medium", "high"}
RcaConfidences == 0..100

RcaGuardInit ==
    /\ \E fault_type \in KnownFaultSet, confidence \in RcaConfidences, risk \in RiskLevels :
          /\ initial_state = create_initial_state(fault_type)
          /\ state = [create_initial_state(fault_type) EXCEPT
                         !.stage = "remediation",
                         !.rca_confidence = confidence,
                         !.remediation_risk = risk]
    /\ llm_mode = "none"
    /\ pc = "route_rca"
    /\ exc = ""
    /\ result = NoResult
    /\ trace = <<"detection", "rca">>
    /\ emitted = <<>>
    /\ failedVerifications = 0

RcaGuardNext ==
    \/ RouteRca
    \/ EndNoAction
    \/ Return

RcaGuardSpec == RcaGuardInit /\ [][RcaGuardNext]_vars

(* ------------------- emergency_rollback over its inputs --------------- *)

\* Longest action list handed to emergency_rollback.
MaxActions == 3

Interfaces == {"Ethernet0", "Ethernet8"}

\* Action records as _execute_action leaves them: a shut-down interface, or
\* an action of another type.
ExecutedActions ==
    {[action_type |-> "shutdown_interface", command |-> i, target_device |-> "core-1",
      executed |-> TRUE, success |-> ok] : i \in Interfaces, ok \in BOOLEAN}
    \cup {[action_type |-> "clear_bgp_session", command |-> "*", target_device |-> "core-1",
           executed |-> TRUE, success |-> ok] : ok \in BOOLEAN}

RollbackAnswers == [Interfaces -> BOOLEAN]

\* The incident after a failed verification, handed to emergency_rollback;
\* initial_state keeps the incident as it was handed over.
RollbackInit ==
    /\ \E actions \in BSeq(ExecutedActions, MaxActions) :
          /\ state = [create_initial_state("traffic_drop") EXCEPT
                         !.stage = "failed",
                         !.remediation_actions = actions]
          /\ initial_state = state
    /\ llm_mode = "none"
    /\ pc = "rollback"
    /\ exc = ""
    /\ result = NoResult
    /\ trace = <<>>
    /\ emitted = <<>>
    /\ failedVerifications = 1

\* emergency_rollback runs and its update is merged into the incident.
EmergencyRollback ==
    /\ pc = "rollback"
    /\ \E answers \in RollbackAnswers :
          NodeDone("emergency_rollback", emergency_rollback(state, answers), "rolled_back")
    /\ UNCHANGED failedVerifications

RollbackNext == EmergencyRollback

RollbackSpec == RollbackInit /\ [][RollbackNext]_vars

(* --------------------- verification_node over its inputs -------------- *)

\* The incident as Remediation leaves it, for every fault type and every
\* outcome of the playbook's actions.
VerifyInit ==
    /\ \E fault_type \in FaultTypes :
          LET s == [create_initial_state(fault_type) EXCEPT !.stage = "remediation"]
          IN \E update \in RemediationUpdates(s) :
                /\ initial_state = create_initial_state(fault_type)
                /\ state = Merge(s, update)
                /\ emitted = update.events
    /\ llm_mode = "none"
    /\ pc = "verification"
    /\ exc = ""
    /\ result = NoResult
    /\ trace = <<"detection", "rca", "remediation">>
    /\ failedVerifications = 0

\* The answers of a metric query that carry no value.
AbsentKinds == {"no_data", "query_failed"}

\* verification_node when no metric query of its criteria gives a value.
VerificationWithoutData ==
    /\ pc = "verification"
    /\ LET criteria == VERIFICATION_CRITERIA(state.fault_type)
       IN \E kinds \in [1..Len(criteria) -> AbsentKinds],
             node \in NodeResponses, tttr \in VerificationDurations :
             LET results == [i \in 1..Len(criteria) |->
                                _run_verification_check(criteria[i],
                                    [kind |-> kinds[i], value |-> <<>>])]
                 update == verification_node(state, results,
                                             _verify_gns3_state(node), tttr)
             IN /\ NodeDone("verification", update, "verified_without_data")
                /\ failedVerifications' =
                      IF update.verification_passed THEN failedVerifications
                      ELSE failedVerifications + 1

VerifyNext ==
    \/ Verification
    \/ VerificationWithoutData

VerifySpec == VerifyInit /\ [][VerifyNext]_vars

(* -------------------- _evaluate_condition over its inputs ------------- *)

NumericLiterals == {<<"0">>, <<"1">>, <<"5">>, <<"1", "0">>}
ConditionPrefixes ==
    {<<>>, <<">">>, <<"<">>, <<">", "=">>, <<"<", "=">>, <<"!", "=">>}
StatusWords == {<<"u", "p">>, <<"U", "P">>, <<"D", "o", "w", "n">>}

ActualValues == NumericLiterals \cup {<<"9">>, <<"9", "0">>} \cup StatusWords
ExpectedConditions ==
    {prefix \o n : prefix \in ConditionPrefixes, n \in NumericLiterals} \cup StatusWords

\* One call of _evaluate_condition: state holds the arguments, result the
\* value returned.
EvalInit ==
    /\ \E actual \in ActualValues, expected \in ExpectedConditions :
          state = [actual |-> actual, expected |-> expected]
    /\ initial_state = state
    /\ llm_mode = "none"
    /\ pc = "evaluate"
    /\ exc = ""
    /\ result = NoResult
    /\ trace = <<>>
    /\ emitted = <<>>
    /\ failedVerifications = 0

Evaluate ==
    /\ pc = "evaluate"
    /\ result' = [passed |-> _evaluate_condition(state.actual, state.expected)]
    /\ pc' = "evaluated"
    /\ UNCHANGED <<state, initial_state, llm_mode, exc, trace, emitted, failedVerifications>>

EvalNext == Evaluate

EvalSpec == EvalInit /\ [][EvalNext]_vars

(* --------------------- _classify_fault over its inputs ---------------- *)

\* Anomalies in a list handed to _classify_fault, at most.
MaxAnomalies == 2

\* The metrics of the signatures, and the one detect_anomalies reports that
\* no signature holds.
AnomalyMetrics ==
    UNION {SignatureMetrics(ft) : ft \in KnownFaultSet} \cup {"interface_errors_rate"}

Severities == {"critical", "warning"}

ClassifiedAnomalies == [metric : AnomalyMetrics, severity : Severities]

Gns3Statuses == {"started", "stopped", "unknown"}

\* One call of _classify_fault: state holds the arguments, result the value
\* returned.
ClassifyInit ==
    /\ \E claimed_fault \in ClaimedFaults,
          anomalies \in BSeq(ClassifiedAnomalies, MaxAnomalies),
          gns3_status \in Gns3Statuses :
          state = [claimed_fault |-> claimed_fault, anomalies |-> anomalies,
                   gns3_status |-> gns3_status]
    /\ initial_state = state
    /\ llm_mode = "none"
    /\ pc = "classify"
    /\ exc = ""
    /\ result = NoResult
    /\ trace = <<>>
    /\ emitted = <<>>
    /\ failedVerifications = 0

Classify ==
    /\ pc = "classify"
    /\ result' = _classify_fault(state.claimed_fault, state.anomalies,
                                 state.gns3_status)
    /\ pc' = "classified"
    /\ UNCHANGED <<state, initial_state, llm_mode, exc, trace, emitted, failedVerifications>>

ClassifyNext == Classify

ClassifySpec == ClassifyInit /\ [][ClassifyNext]_vars

(* ------------- the confidences, over the inputs of their functions ----- *)

\* Metric deviations handed to _analyze_root_cause, at most.
MaxDeviations == 4

DeviationLists ==
    {Deviations(anomalies) :
        anomalies \in BSeq({[metric |-> "bgp_session_state", value |-> 0,
                             severity |-> "critical"],
                            [metric |-> "interface_errors_rate", value |-> 60,
                             severity |-> "warning"]}, MaxDeviations)}

\* One call of _analyze_root_cause: state holds the arguments, result the
\* value returned.
AnalyzeInit ==
    /\ \E fault_type \in FaultTypes, metric_deviations \in DeviationLists,
          bgp_output \in BgpOutputs, intf_output \in IntfOutputs :
          state = [fault_type |-> fault_type,
                   metric_deviations |-> metric_deviations,
                   bgp_output |-> bgp_output, intf_output |-> intf_output]
    /\ initial_state = state
    /\ llm_mode = "none"
    /\ pc = "analyze"
    /\ exc = ""
    /\ result = NoResult
    /\ trace = <<>>
    /\ emitted = <<>>
    /\ failedVerifications = 0

AnalyzeRootCause ==
    /\ pc = "analyze"
    /\ result' = _analyze_root_cause(state.fault_type, state.metric_deviations,
                                     state.bgp_output, state.intf_output)
    /\ pc' = "analyzed"
    /\ UNCHANGED <<state, initial_state, llm_mode, exc, trace, emitted, failedVerifications>>

\* The pipeline, and the two functions that compute a confidence called on
\* their own.
ConfidenceInit == Init \/ ClassifyInit \/ AnalyzeInit

ConfidenceNext == Next \/ Classify \/ AnalyzeRootCause

ConfidenceSpec == ConfidenceInit /\ [][ConfidenceNext]_vars

(* ----------------- the playbook loop over every playbook --------------- *)

\* Actions in a playbook handed to the loop, at most.
MaxPlaybook == 3

RiskLabels == {"low", "medium", "high"}

StepNames == <<"step_1", "step_2", "step_3", "step_4">>

\* Playbooks of distinct actions, each with any per-action risk.
Playbooks ==
    UNION {{[i \in 1..n |-> Action(StepNames[i], risks[i])] :
                risks \in [1..n -> RiskLabels]} : n \in 0..MaxPlaybook}

\* One pass of the loop of remediation_node: state holds the playbook, the
\* incident's risk level and the collaborators' answers, result the
\* actions_executed list.
PlaybookInit ==
    /\ \E playbook \in Playbooks, remediation_risk \in RiskLabels :
          \E outcomes \in [1..Len(playbook) -> BOOLEAN] :
             state = [playbook |-> playbook,
                      remediation_risk |-> remediation_risk,
                      device_name |-> "core-1",
                      outcomes |-> outcomes]
    /\ initial_state = state
    /\ llm_mode = "none"
    /\ pc = "run_playbook"
    /\ exc = ""
    /\ result = NoResult
    /\ trace = <<>>
    /\ emitted = <<>>
    /\ failedVerifications = 0

ExecutePlaybook ==
    /\ pc = "run_playbook"
    /\ result' = [actions_executed |->
                     RunPlaybook(state.playbook, state.remediation_risk,
                                 state.device_name, state.outcomes)]
    /\ pc' = "playbook_run"
    /\ UNCHANGED <<state, initial_state, llm_mode, exc, trace, emitted, failedVerifications>>

PlaybookNext == ExecutePlaybook

PlaybookSpec == PlaybookInit /\ [][PlaybookNext]_vars

(* ------- an AI-enhanced run and a rule-based run, side by side --------- *)

\* Two runs of the graph on the same incident: state.ai goes through the
\* wrappers with an LLM client (llm_mode says whether its calls answer or
\* raise), state.rule with none. Each step hands both runs the same answers
\* of the collaborators. pc holds the position of each run; trace and emitted
\* follow the AI-enhanced run.
Both(a, r) == [ai |-> a, rule |-> r]

TwinInit ==
    /\ \E fault_type \in ClaimedFaults :
          /\ initial_state = create_initial_state(fault_type)
          /\ state = Both(create_initial_state(fault_type),
                          create_initial_state(fault_type))
    /\ llm_mode \in LlmModes \ {"none"}
    /\ pc = Both("detection", "detection")
    /\ exc = ""
    /\ result = NoResult
    /\ trace = <<>>
    /\ emitted = <<>>
    /\ failedVerifications = 0

TwinDone(node, update_ai, update_rule, next) ==
    /\ state' = Both(Merge(state.ai, update_ai), Merge(state.rule, update_rule))
    /\ pc' = Both(next, next)
    /\ trace' = Append(trace, node)
    /\ emitted' = emitted \o update_ai.events
    /\ UNCHANGED <<initial_state, llm_mode, exc, result>>

TwinRouted(next_ai, next_rule) ==
    /\ pc' = Both(next_ai, next_rule)
    /\ UNCHANGED <<state, initial_state, llm_mode, exc, result, trace, emitted, failedVerifications>>

TwinDetection ==
    /\ pc = Both("detection", "detection")
    /\ \E anomalies \in AnomalyLists,
          gns3_status \in {"started", "stopped", "unknown"},
          ttd \in DetectionDurations :
          TwinDone("detection",
                   detection_wrapper(state.ai, anomalies, gns3_status, ttd, llm_mode),
                   detection_wrapper(state.rule, anomalies, gns3_status, ttd, "none"),
                   "route_detection")
    /\ UNCHANGED failedVerifications

TwinRouteDetection ==
    /\ pc = Both("route_detection", "route_detection")
    /\ TwinRouted(DetectionEdge(should_continue_after_detection(state.ai)),
                  DetectionEdge(should_continue_after_detection(state.rule)))

TwinRca ==
    /\ pc = Both("rca", "rca")
    /\ \E bgp_output \in BgpOutputs, intf_output \in IntfOutputs :
          TwinDone("rca",
                   rca_wrapper(state.ai, bgp_output, intf_output, llm_mode),
                   rca_wrapper(state.rule, bgp_output, intf_output, "none"),
                   "route_rca")
    /\ UNCHANGED failedVerifications

TwinRouteRca ==
    /\ pc = Both("route_rca", "route_rca")
    /\ TwinRouted(RcaEdge(should_continue_after_rca(state.ai)),
                  RcaEdge(should_continue_after_rca(state.rule)))

TwinRemediation ==
    /\ pc = Both("remediation", "remediation")
    /\ \E outcomes \in [1..Len(REMEDIATION_PLAYBOOKS(state.ai.fault_type)) -> BOOLEAN],
          ttr \in RemediationDurations :
          TwinDone("remediation",
                   remediation_node(state.ai, outcomes, ttr),
                   remediation_node(state.rule, outcomes, ttr),
                   "verification")
    /\ UNCHANGED failedVerifications

TwinVerification ==
    /\ pc = Both("verification", "verification")
    /\ \E results \in CheckResultTable[state.ai.fault_type],
          gns3_verification \in Gns3Results,
          tttr \in VerificationDurations :
          /\ TwinDone("verification",
                      verification_node(state.ai, results, gns3_verification, tttr),
                      verification_node(state.rule, results, gns3_verification, tttr),
                      "route_verification")
          /\ failedVerifications' =
                IF verification_node(state.ai, results, gns3_verification,
                                     tttr).verification_passed
                THEN failedVerifications
                ELSE failedVerifications + 1

TwinRouteVerification ==
    /\ pc = Both("route_verification", "route_verification")
    /\ TwinRouted(VerificationEdge(should_retry_or_end(state.ai)),
                  VerificationEdge(should_retry_or_end(state.rule)))

TwinEndUnconfirmed ==
    /\ pc = Both("end_unconfirmed", "end_unconfirmed")
    /\ TwinDone("end_unconfirmed", end_unconfirmed(state.ai),
                end_unconfirmed(state.rule), "END")
    /\ UNCHANGED failedVerifications

TwinEndNoAction ==
    /\ pc = Both("end_no_action", "end_no_action")
    /\ TwinDone("end_no_action", end_no_action(state.ai),
                end_no_action(state.rule), "END")
    /\ UNCHANGED failedVerifications

TwinEndResolved ==
    /\ pc = Both("end_resolved", "end_resolved")
    /\ TwinDone("end_resolved", end_resolved(state.ai),
                end_resolved(state.rule), "END")
    /\ UNCHANGED failedVerifications

TwinEndFailed ==
    /\ pc = Both("end_failed", "end_failed")
    /\ TwinDone("end_failed", end_failed(state.ai), end_failed(state.rule), "END")
    /\ UNCHANGED failedVerifications

TwinNext ==
    \/ TwinDetection
    \/ TwinRouteDetection
    \/ TwinRca
    \/ TwinRouteRca
    \/ TwinRemediation
    \/ TwinVerification
    \/ TwinRouteVerification
    \/ TwinEndUnconfirmed
    \/ TwinEndNoAction
    \/ TwinEndResolved
    \/ TwinEndFailed

TwinSpec == TwinInit /\ [][TwinNext]_vars

(* ------------------------------ server.py ------------------------------ *)

\* Trigger requests and status polls the server receives, at most.
MaxIncidents == 2
MaxPolls == 1

\* One thread per trigger request (the Flask handler), one per background
\* job (an executor worker) and one per status poll.
TriggerThreads == {<<"trigger", i>> : i \in 1..MaxIncidents}
WorkerThreads == {<<"worker", i>> : i \in 1..MaxIncidents}
PollThreads == {<<"poll", j>> : j \in 1..MaxPolls}
Threads == TriggerThreads \cup WorkerThreads \cup PollThreads

\* incident_id = f"INC-{uuid.uuid4().hex[:8].upper()}": the id of the i-th
\* trigger, taken to be fresh.
IncidentId(th) == <<"INC", th[2]>>
IncidentIds == {<<"INC", i>> : i \in 1..MaxIncidents}

EmptyMap == [id \in {} |-> None]
\* A wrong store: putting an entry drops every other one.
Put_alone(map, id, entry) == [k \in {id} |-> entry]

Put(map, id, entry) ==
    [k \in DOMAIN map \cup {id} |-> IF k = id THEN entry ELSE map[k]]
Delete(map, id) == [k \in DOMAIN map \ {id} |-> map[k]]

\* What run_healing_workflow hands back to its caller.
RunResults ==
    {[stage |-> "resolved", error |-> None],
     [stage |-> "failed",
      error |-> "Automated remediation unsuccessful, escalating to human operator"]}
RunErrors == {"workflow crashed"}

\* Trigger request bodies: whether the required fields are there, and the
\* "async" flag.
TriggerRequests == [valid : BOOLEAN, async : BOOLEAN]

\* The except branch of _execute_workflow_background, dropping the error text.
BackgroundFailure_silent(e) == [stage |-> "failed", error |-> None]

\* The except branch of _execute_workflow_background.
BackgroundFailure(e) == [stage |-> "failed", error |-> e]

\* The entry a finished run leaves in completed_workflows.
CompletedEntry(outcome) ==
    [result |-> IF outcome.raised THEN BackgroundFailure(outcome.value.message)
                ELSE outcome.value]

\* A request not received yet, a run not finished yet.
NotYet == [pending |-> TRUE]

\* The holder of a lock nobody holds.
Nobody == <<"nobody", 0>>

\* A lock that never makes anybody wait.
LockFree_unguarded(lock) == TRUE

\* with workflow_lock: the block is entered when nobody holds the lock.
LockFree(lock) == lock = Nobody

\* state holds the two registries, the lock's holder, and per thread the
\* request it serves and the outcome of the run it made; pc holds each
\* thread's position, result each request's response; trace is the history
\* of the ids registered so far.
ServerInit ==
    /\ state = [active_workflows |-> EmptyMap,
                completed_workflows |-> EmptyMap,
                workflow_lock |-> Nobody,
                request |-> [th \in Threads |-> NotYet],
                outcome |-> [th \in Threads |-> NotYet]]
    /\ pc = [th \in Threads |->
                IF th \in WorkerThreads THEN "unsubmitted" ELSE "idle"]
    /\ result = [th \in Threads |-> NoResult]
    /\ trace = <<>>
    /\ initial_state = state
    /\ llm_mode = "none"
    /\ exc = ""
    /\ emitted = <<>>
    /\ failedVerifications = 0

ServerUnchanged == UNCHANGED <<initial_state, llm_mode, exc, emitted, failedVerifications>>

Registered == {trace[k] : k \in 1..Len(trace)}

\* trigger_healing: the request arrives; a body without the required fields
\* is answered 400 before any id is made.
TriggerReceive(th) ==
    /\ pc[th] = "idle"
    /\ \E request \in TriggerRequests :
          /\ state' = [state EXCEPT !.request[th] = request]
          /\ pc' = [pc EXCEPT ![th] = IF request.valid THEN "register" ELSE "responded"]
          /\ result' = [result EXCEPT ![th] =
                           IF request.valid THEN @ ELSE [code |-> 400]]
    /\ UNCHANGED trace
    /\ ServerUnchanged

\* with workflow_lock: (any of the blocks that start at position `at`)
Acquire(th, at, inside) ==
    /\ pc[th] = at
    /\ LockFree(state.workflow_lock)
    /\ state' = [state EXCEPT !.workflow_lock = th]
    /\ pc' = [pc EXCEPT ![th] = inside]
    /\ UNCHANGED <<result, trace>>
    /\ ServerUnchanged

TriggerLock(th) == Acquire(th, "register", "registering")

\* active_workflows[incident_id] = {"status": "running", ...}
TriggerRegister(th) ==
    /\ pc[th] = "registering"
    /\ state' = [state EXCEPT
                    !.active_workflows = Put(@, IncidentId(th), [status |-> "running"]),
                    !.workflow_lock = Nobody]
    /\ trace' = Append(trace, IncidentId(th))
    /\ pc' = [pc EXCEPT ![th] = IF state.request[th].async THEN "submit" ELSE "run"]
    /\ UNCHANGED result
    /\ ServerUnchanged

\* executor.submit(_execute_workflow_background, ...)
TriggerSubmit(th) ==
    /\ pc[th] = "submit"
    /\ pc' = [pc EXCEPT ![th] = "accepted", ![<<"worker", th[2]>>] = "run"]
    /\ UNCHANGED <<state, result, trace>>
    /\ ServerUnchanged

\* return jsonify({... "async": True ...}), 202
TriggerAccepted(th) ==
    /\ pc[th] = "accepted"
    /\ result' = [result EXCEPT ![th] =
                     [code |-> 202, incident_id |-> IncidentId(th)]]
    /\ pc' = [pc EXCEPT ![th] = "responded"]
    /\ UNCHANGED <<state, trace>>
    /\ ServerUnchanged

\* result = run_healing_workflow(...), in the handler or in the worker.
RunReturns(th) ==
    /\ pc[th] = "run"
    /\ \E r \in RunResults :
          state' = [state EXCEPT !.outcome[th] = [raised |-> FALSE, value |-> r]]
    /\ pc' = [pc EXCEPT ![th] = "complete"]
    /\ UNCHANGED <<result, trace>>
    /\ ServerUnchanged

\* The run raises in the handler: the outer except answers 500.
TriggerRunRaises(th) ==
    /\ pc[th] = "run"
    /\ th \in TriggerThreads
    /\ \E e \in RunErrors :
          /\ state' = [state EXCEPT !.outcome[th] = [raised |-> TRUE, value |-> [message |-> e]]]
          /\ result' = [result EXCEPT ![th] = [code |-> 500, error |-> e]]
    /\ pc' = [pc EXCEPT ![th] = "responded"]
    /\ UNCHANGED trace
    /\ ServerUnchanged

\* The run raises in the worker: the except branch completes the incident.
WorkerRunRaises(th) ==
    /\ pc[th] = "run"
    /\ th \in WorkerThreads
    /\ \E e \in RunErrors :
          state' = [state EXCEPT !.outcome[th] = [raised |-> TRUE, value |-> [message |-> e]]]
    /\ pc' = [pc EXCEPT ![th] = "complete"]
    /\ UNCHANGED <<result, trace>>
    /\ ServerUnchanged

CompleteLock(th) == Acquire(th, "complete", "del_active")

\* if incident_id in active_workflows: del active_workflows[incident_id]
CompleteDelete(th) ==
    /\ pc[th] = "del_active"
    /\ state' = [state EXCEPT !.active_workflows = Delete(@, IncidentId(th))]
    /\ pc' = [pc EXCEPT ![th] = "put_completed"]
    /\ UNCHANGED <<result, trace>>
    /\ ServerUnchanged

\* completed_workflows[incident_id] = {"result": ..., ...}; the block ends.
CompletePut(th) ==
    /\ pc[th] = "put_completed"
    /\ state' = [state EXCEPT
                    !.completed_workflows =
                        Put(@, IncidentId(th), CompletedEntry(state.outcome[th])),
                    !.workflow_lock = Nobody]
    /\ pc' = [pc EXCEPT ![th] = IF th \in WorkerThreads THEN "done" ELSE "respond"]
    /\ UNCHANGED <<result, trace>>
    /\ ServerUnchanged

\* The synchronous trigger answers with the run's summary.
TriggerRespond(th) ==
    /\ pc[th] = "respond"
    /\ result' = [result EXCEPT ![th] =
                     [code |-> 200, incident_id |-> IncidentId(th),
                      stage |-> state.outcome[th].value.stage]]
    /\ pc' = [pc EXCEPT ![th] = "responded"]
    /\ UNCHANGED <<state, trace>>
    /\ ServerUnchanged

\* get_workflow_result: a poll for some incident id arrives.
PollReceive(th) ==
    /\ pc[th] = "idle"
    /\ \E id \in IncidentIds :
          state' = [state EXCEPT !.request[th] = [incident_id |-> id]]
    /\ pc' = [pc EXCEPT ![th] = "lock"]
    /\ UNCHANGED <<result, trace>>
    /\ ServerUnchanged

PollLock(th) == Acquire(th, "lock", "read")

\* The lookups of get_workflow_result; the response records whether the id
\* was registered when the registries were read.
PollStatus(id, active, completed) ==
    IF id \in DOMAIN active THEN [status |-> "running"]
    ELSE IF id \in DOMAIN completed
    THEN [status |-> "completed", stage |-> completed[id].result.stage,
          error |-> completed[id].result.error]
    ELSE [status |-> "not found"]

PollRead(th) ==
    /\ pc[th] = "read"
    /\ result' = [result EXCEPT ![th] =
                     [incident_id |-> state.request[th].incident_id,
                      response |-> PollStatus(state.request[th].incident_id,
                                              state.active_workflows,
                                              state.completed_workflows),
                      registered |-> state.request[th].incident_id \in Registered]]
    /\ state' = [state EXCEPT !.workflow_lock = Nobody]
    /\ pc' = [pc EXCEPT ![th] = "responded"]
    /\ UNCHANGED trace
    /\ ServerUnchanged

TriggerStep(th) ==
    \/ TriggerReceive(th)
    \/ TriggerLock(th)
    \/ TriggerRegister(th)
    \/ TriggerSubmit(th)
    \/ TriggerAccepted(th)
    \/ RunReturns(th)
    \/ TriggerRunRaises(th)
    \/ CompleteLock(th)
    \/ CompleteDelete(th)
    \/ CompletePut(th)
    \/ TriggerRespond(th)

WorkerStep(th) ==
    \/ RunReturns(th)
    \/ WorkerRunRaises(th)
    \/ CompleteLock(th)
    \/ CompleteDelete(th)
    \/ CompletePut(th)

PollStep(th) ==
    \/ PollReceive(th)
    \/ PollLock(th)
    \/ PollRead(th)

ServerNext ==
    \/ \E th \in TriggerThreads : TriggerStep(th)
    \/ \E th \in WorkerThreads : WorkerStep(th)
    \/ \E th \in PollThreads : PollStep(th)

ServerSpec == ServerInit /\ [][ServerNext]_vars

\* Threads that have something to do get to do it: handlers and workers are
\* operating-system threads, and the pool's five workers outnumber the jobs.
ServerLiveSpec ==
    /\ ServerSpec
    /\ \A th \in TriggerThreads : WF_vars(TriggerStep(th) /\ pc[th] # "idle")
    /\ \A th \in WorkerThreads : WF_vars(WorkerStep(th))
    /\ \A th \in PollThreads : WF_vars(PollStep(th) /\ pc[th] # "idle")

(* ------------------- scenario A: a confirmed link flap ---------------- *)

\* The incident claims bgp_link_flap; Detection finds one critical
\* bgp_session_state anomaly on a started device; Verification reads session
\* state 1 and flap count 0. Everything else the collaborators answer is free.
ScenarioAInit ==
    /\ initial_state = create_initial_state("bgp_link_flap")
    /\ state = create_initial_state("bgp_link_flap")
    /\ llm_mode \in LlmModes
    /\ pc = "detection"
    /\ exc = ""
    /\ result = NoResult
    /\ trace = <<>>
    /\ emitted = <<>>
    /\ failedVerifications = 0

ScenarioAAnomalies ==
    detect_anomalies([status |-> "success", result |-> <<0>>], QueryError)

ScenarioADetection ==
    /\ pc = "detection"
    /\ \E ttd \in DetectionDurations :
          NodeDone("detection",
                   detection_wrapper(state, ScenarioAAnomalies, "started", ttd, llm_mode),
                   "route_detection")
    /\ UNCHANGED failedVerifications

\* The check results when the first two criteria read the values seen.
ScenarioAChecks(criteria) ==
    {<<_run_verification_check(criteria[1], [kind |-> "value", value |-> <<"1">>]),
       _run_verification_check(criteria[2], [kind |-> "value", value |-> <<"0">>]),
       third>> : third \in CheckResults(criteria[3])}

ScenarioAVerification ==
    /\ pc = "verification"
    /\ \E results \in ScenarioAChecks(VERIFICATION_CRITERIA(state.fault_type)),
          gns3_verification \in Gns3Results, tttr \in VerificationDurations :
          LET update == verification_node(state, results, gns3_verification, tttr)
          IN /\ NodeDone("verification", update, "route_verification")
             /\ failedVerifications' =
                   IF update.verification_passed THEN failedVerifications
                   ELSE failedVerifications + 1

ScenarioANext ==
    \/ ScenarioADetection
    \/ RouteDetection
    \/ Rca
    \/ RouteRca
    \/ Remediation
    \/ ScenarioAVerification
    \/ RouteVerification
    \/ EndResolved
    \/ EndFailed
    \/ Raise
    \/ Return
    \/ HandleException

ScenarioASpec == ScenarioAInit /\ [][ScenarioANext]_vars

(* ----------------- remediation_node over every playbook --------------- *)

\* The pipeline's runs, and runs entering Remediation with any fault type
\* ("unknown" has the empty playbook) and any risk level.
RemediationInit ==
    /\ \E fault_type \in FaultTypes, risk \in RiskLevels,
          confidence \in {RcaThreshold, HighRiskRcaThreshold, MaxRcaConfidence} :
          /\ initial_state = create_initial_state(fault_type)
          /\ state = [create_initial_state(fault_type) EXCEPT
                         !.stage = "remediation",
                         !.rca_confidence = confidence,
                         !.remediation_plan = RemediationPlans[fault_type],
                         !.remediation_risk = risk]
    /\ llm_mode = "none"
    /\ pc = "remediation"
    /\ exc = ""
    /\ result = NoResult
    /\ trace = <<"detection", "rca">>
    /\ emitted = <<>>
    /\ failedVerifications = 0

RemediationEdgeSpec == (Init \/ RemediationInit) /\ [][Next]_vars

(* ------------------------- the run, scheduled ------------------------- *)

\* healing_workflow.invoke runs one node after the other on the caller's
\* thread until the graph ends, and run_healing_workflow then returns: a run
\* that has not returned goes on. Every step of Next moves pc and every
\* state short of "returned" has a step that is not Raise, so the fairness
\* is stated on the movement of pc.
Positions == GraphSteps \cup {"END", "raised", "returned"}

Advance ==
    /\ pc # "returned"
    /\ pc' \in Positions
    /\ pc' # pc

\* The runs without an LLM client: the client adds events and text only.
LiveInit == Init /\ llm_mode = "none"

LiveSpec == LiveInit /\ [][Next]_vars /\ WF_pc(Advance)

(* --------------------- exceptions without a message ------------------- *)

\* A node or guard raises an exception whose str() is empty (an assert
\* without a message, Exception()): the except branch gets "" as the text.
RaiseSilent ==
    /\ pc \in GraphSteps
    /\ pc' = "raised"
    /\ exc' = ""
    /\ state' = Discarded
    /\ UNCHANGED <<initial_state, llm_mode, result, trace, emitted, failedVerifications>>

ExceptNext == Next \/ RaiseSilent

ExceptSpec == Init /\ [][ExceptNext]_vars

(* ------------------- status queries, one after the other -------------- *)

\* Answered status queries the history keeps, at most.
MaxAnswers == 2

\* get_workflow_result answers and its handler thread takes the next query:
\* emitted keeps the answers in the order the registries were read.
PollAnswer(th) ==
    /\ pc[th] = "read"
    /\ th \in PollThreads
    /\ Len(emitted) < MaxAnswers
    /\ emitted' = Append(emitted,
                         [incident_id |-> state.request[th].incident_id,
                          response |-> PollStatus(state.request[th].incident_id,
                                                  state.active_workflows,
                                                  state.completed_workflows)])
    /\ state' = [state EXCEPT !.workflow_lock = Nobody, !.request[th] = NotYet]
    /\ pc' = [pc EXCEPT ![th] = "idle"]
    /\ UNCHANGED <<result, trace, initial_state, llm_mode, exc, failedVerifications>>

RepollNext ==
    \/ ServerNext
    \/ \E th \in PollThreads : PollAnswer(th)

RepollSpec == ServerInit /\ [][RepollNext]_vars

(* ------------------------------ properties ---------------------------- *)

Executions(node) == Count(trace, LAMBDA n : n = node)

\* Times the edge from Verification back to RCA was taken.
Retries ==
    Cardinality({i \in 1..(Len(trace) - 1) :
                    trace[i] = "verification" /\ trace[i + 1] = "rca"})

LastNode == IF trace = <<>> THEN "" ELSE trace[Len(trace)]

GraphRunning == pc \in GraphSteps \cup {"END"}

RECURSIVE IsSubseq(_, _)
IsSubseq(s, t) ==
    IF s = <<>> THEN TRUE
    ELSE IF t = <<>> THEN FALSE
    ELSE IF Head(s) = Head(t) THEN IsSubseq(Tail(s), Tail(t))
    ELSE IsSubseq(s, Tail(t))

\* C1: after Detection the run goes to RCA exactly when the detection
\* confidence is at least 0.3 and the fault type is not "unknown"; otherwise
\* it goes to the unconfirmed terminal, and a run that went there executed
\* none of RCA, Remediation, Verification.
C1_DetectionGate ==
    [][/\ (pc = "route_detection" /\ pc' # "raised") =>
            LET confirmed == /\ state.detection_confidence >= 30
                             /\ state.fault_type # "unknown"
            IN /\ (pc' = "rca") <=> confirmed
               /\ (pc' = "end_unconfirmed") <=> ~confirmed
       /\ (pc' = "END" /\ pc = "end_unconfirmed") =>
            trace' = <<"detection", "end_unconfirmed">>]_vars

C1_Witness ==
    /\ pc = "END"
    /\ trace = <<"detection", "end_unconfirmed">>
    /\ state.fault_type # "unknown"
    /\ state.detection_confidence < 30

C3_RetryBound == Retries <= 2 /\ Executions("rca") <= 3

C3_Witness ==
    /\ pc = "END"
    /\ LastNode = "end_failed"
    /\ Retries = 1
    /\ Executions("rca") = 2

\* Every verification executed so far failed, and the graph run is over.
AllVerificationsFailed ==
    /\ pc \in {"END", "returned"}
    /\ exc = ""
    /\ Executions("verification") >= 1
    /\ failedVerifications = Executions("verification")

C5_RetryFromLog ==
    [][(pc = "route_verification" /\ pc' # "raised" /\ ~state.verification_passed) =>
            pc' = IF Count(state.events, LAMBDA e : e.action = "verification_failed") < 2
                  THEN "rca" ELSE "end_failed"]_vars

C5_Witness ==
    /\ pc = "rca"
    /\ LastNode = "verification"
    /\ ~state.verification_passed
    /\ Count(state.events, LAMBDA e : e.action = "verification_failed") = 1

\* C6: whenever the retry guard is evaluated, the event log holds exactly one
\* verification_failed event per verification execution that failed so far.
C6_OneEventPerFailure ==
    pc = "route_verification" =>
        Count(state.events, LAMBDA e : e.action = "verification_failed")
            = failedVerifications

C6_Witness ==
    /\ pc = "route_verification"
    /\ failedVerifications = 2
    /\ Count(state.events, LAMBDA e : e.action = "verification_failed") = 2

\* Positions of the verification_failed events of a log.
FailurePositions(events) ==
    {i \in 1..Len(events) : events[i].action = "verification_failed"}

\* C7: a run that ended in the exhausted terminal has exactly two
\* verification_failed events in its log, both before the closing
\* incident_failed event.
C7_ExhaustedLog ==
    (pc \in {"END", "returned"} /\ exc = "" /\ LastNode = "end_failed") =>
        LET events == state.events
        IN /\ Cardinality(FailurePositions(events)) = 2
           /\ events[Len(events)].action = "incident_failed"
           /\ \A i \in 1..(Len(events) - 1) : events[i].action # "incident_failed"
           /\ pc = "returned" => result.events = events

C7_Witness ==
    /\ pc = "returned"
    /\ LastNode = "end_failed"
    /\ result.stage = "failed"
    /\ Cardinality(FailurePositions(result.events)) = 2

\* C8: an exception raised in a stage, a terminal step or a guard is caught:
\* the next step of the run returns a result whose stage is failed and whose
\* error is the exception's text.
C8_ExceptionCaught ==
    [][pc = "raised" =>
            /\ pc' = "returned"
            /\ result'.stage = "failed"
            /\ result'.error = exc
            /\ exc # ""]_vars

C8_Witness ==
    /\ pc = "returned"
    /\ exc = "route_verification"
    /\ result.stage = "failed"
    /\ result.error = "route_verification"

\* C9: whatever the outcome, the returned result holds every event that a
\* completed stage appended during the run, in insertion order.
C9_FullTimeline == pc = "returned" => IsSubseq(emitted, result.events)

\* C10: the event log only grows at its end: each step of the graph leaves
\* the log before the step as a prefix of the log after it, followed by the
\* events that step returned and nothing else.
C10_AppendOnly ==
    [][(GraphRunning /\ pc' \in GraphSteps \cup {"END"}) =>
            /\ IsPrefix(state.events, state'.events)
            /\ state'.events =
                  state.events \o SubSeq(emitted', Len(emitted) + 1, Len(emitted'))]_vars

C10_Witness ==
    /\ pc = "END"
    /\ LastNode = "end_resolved"
    /\ Len(state.events) >= 5
    /\ state.events = emitted

LastEvent(events) == events[Len(events)]

\* C11: each terminal step appends exactly one event, the Orchestrator's
\* summary, at the end of the log: incident_unconfirmed with the detection
\* confidence, remediation_skipped with the RCA confidence and the risk,
\* incident_failed, or incident_resolved with total_time = ttd + ttr + tttr.
C11_TerminalSummary ==
    [][(pc \in EndNodes /\ pc' = "END") =>
            LET summary == LastEvent(state'.events)
            IN /\ state'.events = Append(state.events, summary)
               /\ summary.agent = "Orchestrator"
               /\ \A i \in 1..Len(state.events) : state.events[i].agent # "Orchestrator"
               /\ pc = "end_unconfirmed" =>
                     /\ summary.action = "incident_unconfirmed"
                     /\ summary.details.reason =
                           "Low detection confidence or unknown fault type"
                     /\ summary.details.confidence = state.detection_confidence
               /\ pc = "end_no_action" =>
                     /\ summary.action = "remediation_skipped"
                     /\ summary.details.reason = "Low RCA confidence or high risk"
                     /\ summary.details.rca_confidence = state.rca_confidence
                     /\ summary.details.risk = state.remediation_risk
               /\ pc = "end_failed" =>
                     /\ summary.action = "incident_failed"
                     /\ summary.details.reason =
                           "Verification failed after multiple attempts"
               /\ pc = "end_resolved" =>
                     /\ summary.action = "incident_resolved"
                     /\ summary.details.total_time =
                           state.ttd_seconds + state.ttr_seconds + state.tttr_seconds]_vars

C11_Witness ==
    /\ pc = "END"
    /\ LastNode = "end_resolved"
    /\ LastEvent(state.events).action = "incident_resolved"
    /\ LastEvent(state.events).details.total_time
          = state.ttd_seconds + state.ttr_seconds + state.tttr_seconds
    /\ state.tttr_seconds > 0

\* C12: the nodes of a run execute in the order Detection, RCA, Remediation,
\* Verification, with the one backward step Verification -> RCA: Detection
\* is the first node and runs once, RCA follows Detection or Verification,
\* Remediation follows RCA, Verification follows Remediation.
C12_StageOrder ==
    /\ trace # <<>> => trace[1] = "detection"
    /\ \A i \in 2..Len(trace) :
          /\ trace[i] # "detection"
          /\ trace[i] = "rca" => trace[i - 1] \in {"detection", "verification"}
          /\ trace[i] = "remediation" => trace[i - 1] = "rca"
          /\ trace[i] = "verification" => trace[i - 1] = "remediation"

C12_Witness ==
    /\ pc = "route_verification"
    /\ trace = <<"detection", "rca", "remediation", "verification",
                 "rca", "remediation", "verification">>

TerminalStages == {"resolved", "failed"}

\* C13: once the stage field of the incident holds a terminal value
\* (resolved or failed), no later step of the graph run changes the stage
\* field or any other field of the incident.
C13_TerminalImmutable ==
    [][(GraphRunning /\ pc' \in GraphSteps \cup {"END"}
            /\ state.stage \in TerminalStages) => state' = state]_vars

\* C14: a record in the incident's list of executed remediation actions stays
\* in the list, unchanged and in place, for the rest of the run: every step,
\* the second Remediation of a retry included, leaves the list it found as a
\* prefix of the list it leaves.
C14_ActionsKept ==
    [][(GraphRunning /\ pc' \in GraphSteps \cup {"END"}) =>
            IsPrefix(state.remediation_actions, state'.remediation_actions)]_vars

\* C15: merging the update emergency_rollback returns leaves every action
\* recorded before in the incident's action list, in place, and puts the
\* rollback records after them.
C15_RollbackAppends ==
    [][(pc = "rollback" /\ pc' = "rolled_back") =>
            LET old == state.remediation_actions
                new == state'.remediation_actions
            IN /\ IsPrefix(old, new)
               /\ \A i \in (Len(old) + 1)..Len(new) :
                     new[i].action_type = "enable_interface"]_vars

\* The actions a rollback reverts, last executed first.
Revertible(actions) ==
    SelectSeq(Reverse(actions),
              LAMBDA a : a.success /\ a.action_type = "shutdown_interface")

\* C16: the rollback records are, in order, one enable_interface record per
\* action of the reversed list that succeeded and is a shutdown_interface;
\* failed actions and other action types give no record, so a list without a
\* successful action gives none.
C16_RollbackRecords ==
    pc = "rollback" =>
        \A answers \in RollbackAnswers :
            LET reverted == Revertible(state.remediation_actions)
                produced == emergency_rollback(state, answers).remediation_actions
            IN /\ Len(produced) = Len(reverted)
               /\ \A k \in 1..Len(produced) :
                     produced[k] = [action_type |-> "enable_interface",
                                    success |-> answers[reverted[k].command],
                                    original_action |-> "shutdown_interface"]
               /\ (\A i \in 1..Len(state.remediation_actions) :
                        ~state.remediation_actions[i].success) => produced = <<>>

C16_Witness ==
    /\ pc = "rolled_back"
    /\ Len(initial_state.remediation_actions) = 3
    /\ Len(Revertible(initial_state.remediation_actions)) = 2
    /\ Len(state.remediation_actions) = 2
    /\ state.remediation_actions[1].success
    /\ ~state.remediation_actions[2].success
    /\ initial_state.remediation_actions[1].command = "Ethernet0"
    /\ initial_state.remediation_actions[3].command = "Ethernet8"

PassedChecks(checks) == Cardinality({i \in 1..Len(checks) : checks[i].passed})

\* C17: verification passes overall exactly when every critical criterion
\* passed and the passed checks are at least 80% of all checks run, the
\* topology check counted among them.
C17_EightyPercentRule ==
    [][(pc = "verification" /\ pc' = "route_verification") =>
            LET criteria == VERIFICATION_CRITERIA(state.fault_type)
                checks == state'.verification_checks
            IN state'.verification_passed <=>
                  /\ \A i \in 1..Len(criteria) : criteria[i].critical => checks[i].passed
                  /\ PassedChecks(checks) * 10 >= Len(checks) * 8]_vars

\* C18: a criterion whose query fails or gives no data passes, and so does
\* the topology check of a node that is not found; a verification in which
\* no criterion got a value passes overall, for every fault type.
C18_AbsenceIsPass ==
    [][(pc = "verification" /\ pc' = "verified_without_data") =>
            LET criteria == VERIFICATION_CRITERIA(state.fault_type)
                checks == state'.verification_checks
            IN /\ Len(checks) = Len(criteria) + 1
               /\ \A i \in 1..Len(criteria) : checks[i].passed
               /\ _verify_gns3_state("node_not_found").passed
               /\ state'.verification_passed
               /\ state'.stage = "resolved"]_vars

C18_Witness ==
    /\ pc = "verified_without_data"
    /\ state.fault_type = "bgp_link_flap"
    /\ Len(state.verification_checks) = 4
    /\ \A i \in 1..3 : state.verification_checks[i].passed
    /\ state.verification_passed

\* The condition grammar as stated: a comparator prefix and a number, or a
\* bare literal.
ConditionHolds(actual, expected) ==
    LET a == DigitsValue(actual)
        n2 == DigitsValue(Drop(expected, 2))
        n1 == DigitsValue(Drop(expected, 1))
    IN IF StartsWith(expected, <<">", "=">>) THEN a >= n2
       ELSE IF StartsWith(expected, <<"<", "=">>) THEN a <= n2
       ELSE IF StartsWith(expected, <<"!", "=">>) THEN a # n2
       ELSE IF StartsWith(expected, <<">">>) THEN a > n1
       ELSE IF StartsWith(expected, <<"<">>) THEN a < n1
       ELSE a = DigitsValue(expected)

\* C19: for a numeric actual value and a condition >n, <n, >=n, <=n, !=n or
\* a bare n, the evaluator returns the truth of the comparison; a non-numeric
\* actual value is compared with the expected literal as strings, ignoring
\* case.
C19_ConditionGrammar ==
    pc = "evaluated" =>
        /\ (AllDigits(state.actual) /\ state.expected \notin StatusWords) =>
              (result.passed <=> ConditionHolds(state.actual, state.expected))
        /\ (state.actual \in StatusWords /\ state.expected \in StatusWords) =>
              (result.passed <=> StrLower(state.actual) = StrLower(state.expected))

\* The evidence scores as sums of hundredths: 10 for unknown; for a known
\* type 30 (45 if critical) per anomaly whose metric is in its signature, 40
\* if it is the claimed type, 30 / 20 for bgp_session_instability /
\* traffic_drop when the device is stopped.
RECURSIVE MatchedHundredths(_, _)
MatchedHundredths(ft, anomalies) ==
    IF anomalies = <<>> THEN 0
    ELSE (IF Head(anomalies).metric \in SignatureMetrics(ft)
          THEN (IF Head(anomalies).severity = "critical"
                THEN (AnomalyWeight * 3) \div 2 ELSE AnomalyWeight)
          ELSE 0)
         + MatchedHundredths(ft, Tail(anomalies))

ScoreHundredths(ft, claimed_fault, anomalies, gns3_status) ==
    IF ft = "unknown" THEN UnknownBias
    ELSE MatchedHundredths(ft, anomalies)
         + (IF claimed_fault = ft THEN ClaimBonus ELSE 0)
         + (IF gns3_status = "stopped" /\ ft = "bgp_session_instability"
            THEN StoppedBonusSession ELSE 0)
         + (IF gns3_status = "stopped" /\ ft = "traffic_drop"
            THEN StoppedBonusTraffic ELSE 0)

\* The first type, in enumeration order, whose sum is maximal.
FirstMaximal(claimed_fault, anomalies, gns3_status) ==
    LET score(i) == ScoreHundredths(ScoreOrder[i], claimed_fault, anomalies,
                                    gns3_status)
        first == CHOOSE i \in 1..Len(ScoreOrder) :
                    /\ \A j \in 1..Len(ScoreOrder) : score(j) <= score(i)
                    /\ \A j \in 1..(i - 1) : score(j) < score(i)
    IN ScoreOrder[first]

\* C20: for every anomaly list, claimed fault and device status, the
\* classified fault type is the first type, in the order bgp_link_flap,
\* bgp_session_instability, traffic_drop, cpu_spike, memory_exhaustion,
\* unknown, whose evidence score (0.1 for unknown; 0.3, or 0.45 if critical,
\* per anomaly in the signature, 0.4 if claimed, 0.3 / 0.2 for
\* bgp_session_instability / traffic_drop on a stopped device) is maximal.
C20_FirstMaximalWins ==
    pc = "classified" =>
        result.fault_type = FirstMaximal(state.claimed_fault, state.anomalies,
                                         state.gns3_status)

IsIncident(s) == "detection_confidence" \in DOMAIN s

\* C21: in every incident state (and every returned incident) detection
\* confidence is within [0, 1] and RCA confidence within [0, 0.95]; the
\* detection confidence _classify_fault returns is min(winning score, 1.0)
\* and the RCA confidence is min(0.3 + 0.15 * evidence count, 0.95).
C21_ConfidenceBounds ==
    /\ IsIncident(state) =>
          /\ state.detection_confidence \in 0..100
          /\ state.rca_confidence \in 0..95
          /\ "rca" \in {trace[i] : i \in 1..Len(trace)} =>
                state.rca_confidence = Min(30 + 15 * Len(state.rca_evidence), 95)
    /\ IsIncident(result) =>
          /\ result.detection_confidence \in 0..100
          /\ result.rca_confidence \in 0..95
    /\ pc = "classified" =>
          result.confidence =
              Min(ScoreHundredths(result.fault_type, state.claimed_fault,
                                  state.anomalies, state.gns3_status), 100)
    /\ pc = "analyzed" =>
          /\ result.confidence \in 0..95
          /\ result.confidence = Min(30 + 15 * Len(result.evidence), 95)

\* Five or more pieces of evidence: the sum passes 0.95 and is clamped.
C21_Witness ==
    /\ pc = "analyzed"
    /\ Len(result.evidence) >= 5
    /\ result.confidence = 95

\* Positions of the playbook the risk rule lets through.
Allowed(playbook, remediation_risk) ==
    {i \in 1..Len(playbook) :
        ~(remediation_risk = "low" /\ playbook[i].risk = "high")}

\* The position in the playbook of an executed action.
PositionOf(playbook, record) ==
    CHOOSE i \in 1..Len(playbook) : playbook[i].action_type = record.action_type

\* Positions whose action was executed.
ExecutedPositions(playbook, executed) ==
    {PositionOf(playbook, executed[k]) : k \in 1..Len(executed)}

\* Executed high-risk actions that failed.
Aborting(playbook, executed) ==
    {k \in 1..Len(executed) :
        /\ ~executed[k].success
        /\ playbook[PositionOf(playbook, executed[k])].risk = "high"}

\* C22: the loop executes the playbook's actions in playbook order, never
\* one whose own risk is high when the incident's risk is low, and every
\* other one unless the sequence was aborted.
C22_SkipHighWhenLow ==
    pc = "playbook_run" =>
        LET playbook == state.playbook
            executed == result.actions_executed
        IN /\ \A k \in 1..Len(executed) :
                 /\ \E i \in 1..Len(playbook) :
                       playbook[i].action_type = executed[k].action_type
                 /\ PositionOf(playbook, executed[k])
                       \in Allowed(playbook, state.remediation_risk)
                 /\ executed[k].success
                       = state.outcomes[PositionOf(playbook, executed[k])]
           /\ \A k \in 1..(Len(executed) - 1) :
                 PositionOf(playbook, executed[k])
                     < PositionOf(playbook, executed[k + 1])
           /\ Aborting(playbook, executed) = {} =>
                 ExecutedPositions(playbook, executed)
                     = Allowed(playbook, state.remediation_risk)

\* A low-risk incident, a high-risk first action and a later action: the
\* first is skipped, the later one runs.
C22_Witness ==
    /\ pc = "playbook_run"
    /\ state.remediation_risk = "low"
    /\ Len(state.playbook) >= 2
    /\ state.playbook[1].risk = "high"
    /\ state.playbook[2].risk = "low"
    /\ Len(result.actions_executed) >= 1
    /\ result.actions_executed[1].action_type = "step_2"

\* C23: a failed executed action of high risk is the last action executed;
\* a failed action of any other risk stops nothing: every allowed action
\* up to the first failed high-risk one is executed.
C23_AbortOnHighFailure ==
    pc = "playbook_run" =>
        LET playbook == state.playbook
            executed == result.actions_executed
            allowed == Allowed(playbook, state.remediation_risk)
            failedHigh == {i \in allowed :
                              playbook[i].risk = "high" /\ ~state.outcomes[i]}
        IN /\ \A k \in Aborting(playbook, executed) : k = Len(executed)
           /\ ExecutedPositions(playbook, executed) =
                 {i \in allowed : \A j \in failedHigh : i <= j}

\* A high-risk first action fails on a medium-risk incident: nothing runs
\* after it.
C23_Witness ==
    /\ pc = "playbook_run"
    /\ state.remediation_risk = "medium"
    /\ Len(state.playbook) = 3
    /\ state.playbook[1].risk = "high"
    /\ ~state.outcomes[1]
    /\ Len(result.actions_executed) = 1
    /\ ~result.actions_executed[1].success

\* What AI enrichment may change: the hypothesis text, the event log (by
\* ai_* events) and the internal logs.
NarrativeFields == {"rca_hypothesis", "events", "internal_logs"}

IsAiEvent(e) == e.action \in {"ai_classification", "ai_analysis_complete"}

RECURSIVE WithoutAiEvents(_)
WithoutAiEvents(events) ==
    IF events = <<>> THEN <<>>
    ELSE (IF IsAiEvent(Head(events)) THEN <<>> ELSE <<Head(events)>>)
         \o WithoutAiEvents(Tail(events))

C25_RegistryStatus ==
    /\ \A th \in PollThreads :
          pc[th] = "responded" =>
             /\ result[th].response.status = "not found" => ~result[th].registered
             /\ result[th].registered =>
                   result[th].response.status \in {"running", "completed"}
    /\ state.workflow_lock \in PollThreads \cup {Nobody} =>
          \A id \in IncidentIds :
             /\ id \in Registered =>
                   (id \in DOMAIN state.active_workflows)
                       # (id \in DOMAIN state.completed_workflows)
             /\ id \notin Registered =>
                   /\ id \notin DOMAIN state.active_workflows
                   /\ id \notin DOMAIN state.completed_workflows

\* A poll reads the registries while the run it asks about waits to record
\* its completion, and is told the incident is running.
C25_Witness ==
    \E th \in PollThreads, w \in WorkerThreads :
        /\ pc[th] = "responded"
        /\ result[th].incident_id = IncidentId(w)
        /\ result[th].response.status = "running"
        /\ pc[w] = "complete"

\* C26: an asynchronous trigger answers 202 with the id it has registered,
\* without waiting for the run; once the job is submitted the incident
\* eventually is in completed_workflows, and what is recorded there is what
\* the run returned, or stage failed with the error text if the run raised.
C26_AsyncCompletes ==
    \A i \in 1..MaxIncidents :
        LET th == <<"trigger", i>>
            w == <<"worker", i>>
            id == IncidentId(th)
        IN /\ [](pc[th] = "responded" /\ state.request[th].valid
                    /\ state.request[th].async =>
                    /\ result[th] = [code |-> 202, incident_id |-> id]
                    /\ id \in Registered)
           /\ [](pc[w] = "done" =>
                    /\ id \in DOMAIN state.completed_workflows
                    /\ id \notin DOMAIN state.active_workflows
                    /\ state.completed_workflows[id].result =
                          IF state.outcome[w].raised
                          THEN [stage |-> "failed",
                                error |-> state.outcome[w].value.message]
                          ELSE state.outcome[w].value)
           /\ (pc[th] = "submit") ~> (pc[w] = "done")

\* The trigger has answered while the run is still going.
C26_Witness ==
    \E i \in 1..MaxIncidents :
        /\ pc[<<"trigger", i>>] = "responded"
        /\ result[<<"trigger", i>>].code = 202
        /\ pc[<<"worker", i>>] = "run"
        /\ IncidentId(<<"trigger", i>>) \in DOMAIN state.active_workflows


\* What scenario A says of Detection, RCA and Remediation: the type stays
\* bgp_link_flap with confidence >= 0.5 and the run goes on to RCA; the plan
\* has a step adjusting a BGP timer and the risk is low or medium, and the
\* run goes on to Remediation; Remediation executes the 2 playbook actions.
ScenarioAStages ==
    GraphRunning =>
        /\ pc \notin {"end_unconfirmed", "end_no_action"}
        /\ trace # <<>> =>
              /\ state.fault_type = "bgp_link_flap"
              /\ state.detection_confidence >= 50
        /\ Executions("rca") > 0 =>
              /\ \E i \in 1..Len(state.remediation_plan) :
                    /\ Contains(state.remediation_plan[i], "BGP")
                    /\ Contains(state.remediation_plan[i], "timer")
              /\ state.remediation_risk \in {"low", "medium"}
        /\ Executions("remediation") > 0 =>
              Len(state.remediation_actions) = 2

ScenarioB ==
    /\ GraphRunning
    /\ trace # <<>>
    /\ initial_state.fault_type = "unknown"
    /\ state.metric_deviations = <<>>

NoRcaOrRemediationEvent(events) ==
    \A i \in 1..Len(events) : events[i].stage \notin {"rca", "remediation"}

\* The run of scenario B as told: unknown at 0.1, straight to the
\* unconfirmed terminal, no RCA and no remediation event.
Unconfirmed ==
    /\ state.fault_type = "unknown"
    /\ state.detection_confidence = 10
    /\ IsPrefix(trace, <<"detection", "end_unconfirmed">>)
    /\ pc \in {"route_detection", "end_unconfirmed", "END"}
    /\ NoRcaOrRemediationEvent(state.events)

\* C28 as stated: whenever the claimed fault is unknown and there is no
\* anomaly, Detection yields unknown at confidence 0.1, the run ends in the
\* unconfirmed terminal, and the log has no RCA and no remediation event.
C28_AsStated ==
    /\ ScenarioB => Unconfirmed
    /\ pc = "returned" /\ exc = "" /\ initial_state.fault_type = "unknown"
            /\ result.metric_deviations = <<>> =>
          /\ trace = <<"detection", "end_unconfirmed">>
          /\ NoRcaOrRemediationEvent(result.events)

\* C28: with the claimed fault unknown and no anomaly, a device that is not
\* reported stopped is classified unknown at confidence 0.1 and the run ends
\* in the unconfirmed terminal with no RCA and no remediation event; a stopped
\* device is classified bgp_session_instability at confidence 0.3 and the run
\* goes on to RCA.
C28_ScenarioB ==
    /\ ScenarioB /\ pc = "route_detection" =>
          /\ \A gns3_status \in {"started", "unknown"} :
                _classify_fault("unknown", <<>>, gns3_status) =
                   [fault_type |-> "unknown", confidence |-> 10,
                    method |-> "proactive_analysis"]
          /\ _classify_fault("unknown", <<>>, "stopped") =
                [fault_type |-> "bgp_session_instability", confidence |-> 30,
                 method |-> "proactive_analysis"]
    /\ ScenarioB =>
          /\ state.detection_method = "proactive_analysis"
          /\ \/ Unconfirmed
             \/ /\ state.fault_type = "bgp_session_instability"
                /\ state.detection_confidence = 30
                /\ pc # "end_unconfirmed"
                /\ Len(trace) >= 2 => trace[2] = "rca"
    /\ pc = "returned" /\ exc = "" /\ initial_state.fault_type = "unknown"
            /\ result.metric_deviations = <<>>
            /\ result.fault_type = "unknown" =>
          /\ trace = <<"detection", "end_unconfirmed">>
          /\ result.detection_confidence = 10
          /\ NoRcaOrRemediationEvent(result.events)

\* A run of scenario B on a device that is not stopped has returned from the
\* unconfirmed terminal.
C28_Witness ==
    /\ pc = "returned"
    /\ exc = ""
    /\ initial_state.fault_type = "unknown"
    /\ result.metric_deviations = <<>>
    /\ result.fault_type = "unknown"
    /\ result.detection_confidence = 10
    /\ trace = <<"detection", "end_unconfirmed">>

\* The plans with a step that restarts, reloads, fails over or shuts down.
DisruptivePlans == {"bgp_link_flap", "traffic_drop", "cpu_spike", "memory_exhaustion"}

\* C29: the risk of a plan is medium when a step names restart, reload,
\* failover or shutdown and low otherwise, never high; so after RCA the
\* remediation_risk of a run is low or medium, and a run reaches the no-action
\* terminal only through the confidence rule (RCA confidence < 0.4), never
\* through the high-risk rule.
C29_RiskNeverHigh ==
    /\ pc = "route_rca" =>
          \A ft \in FaultTypes :
             /\ _assess_remediation_risk(_generate_remediation_plan(ft)) =
                   (IF ft \in DisruptivePlans THEN "medium" ELSE "low")
             /\ (ft \in DisruptivePlans) <=>
                   \E step \in {"Restart", "Failover", "shutdown"} :
                      \E i \in 1..Len(_generate_remediation_plan(ft)) :
                         Contains(_generate_remediation_plan(ft)[i], step)
    /\ GraphRunning /\ Executions("rca") > 0 =>
          state.remediation_risk \in {"low", "medium"}
    /\ pc = "end_no_action" => state.rca_confidence < RcaThreshold
    /\ pc = "remediation" => state.rca_confidence >= RcaThreshold

\* A run goes on to Remediation with a disruptive plan and an RCA confidence
\* below 0.8: the case the high-risk rule would have stopped.
C29_Witness ==
    /\ pc = "remediation"
    /\ state.fault_type \in DisruptivePlans
    /\ state.remediation_risk = "medium"
    /\ state.rca_confidence < HighRiskRcaThreshold

\* C30: when Remediation completes, whatever its actions returned and however
\* many of them ran, the run is at Verification, and the node that completes
\* after a Remediation is Verification.
C30_RemediationThenVerification ==
    [][/\ (pc = "remediation" /\ pc' # "raised") =>
            /\ pc' = "verification"
            /\ trace' = Append(trace, "remediation")
       /\ (LastNode = "remediation" /\ trace' # trace) =>
            trace' = Append(trace, "verification")]_vars

\* Verification has run after a Remediation that had no action to execute.
C30_Witness ==
    /\ GraphRunning
    /\ Len(trace) >= 2
    /\ trace[Len(trace)] = "verification"
    /\ trace[Len(trace) - 1] = "remediation"
    /\ state.remediation_actions = <<>>

NoRollbackEvent(events) ==
    \A i \in 1..Len(events) : events[i].action # "emergency_rollback"

C32_Terminates ==
    /\ [](/\ Executions("detection") <= 1
          /\ Executions("rca") <= MaxVerificationFailures
          /\ Executions("remediation") <= MaxVerificationFailures
          /\ Executions("verification") <= MaxVerificationFailures)
    /\ <>(/\ pc = "returned"
          /\ exc = "" => LastNode \in EndNodes /\ Executions(LastNode) = 1)

\* A run has returned after the longest sequence of stages there is.
C32_Witness ==
    /\ pc = "returned"
    /\ exc = ""
    /\ trace = <<"detection", "rca", "remediation", "verification",
                 "rca", "remediation", "verification", "end_failed">>

\* The confidence _classify_fault computes, before any rounding for display.
ConfidenceFloat(claimed_fault, anomalies, gns3_status) ==
    FloatMin(evidence_scores(claimed_fault, anomalies, gns3_status)
                 [ArgMax(evidence_scores(claimed_fault, anomalies, gns3_status))],
             Literal(MaxDetectionConfidence))

Without(s, i) == SubSeq(s, 1, i - 1) \o SubSeq(s, i + 1, Len(s))

\* C33: for a fixed claimed fault and device status, the confidence of an
\* anomaly list is not below the confidence of the list without any one of
\* its anomalies, nor below that of the list with one of its critical
\* anomalies turned into a warning.
C33_ConfidenceMonotone ==
    pc = "classified" =>
        \A i \in 1..Len(state.anomalies) :
            /\ ~FloatLess(
                  ConfidenceFloat(state.claimed_fault, state.anomalies,
                                  state.gns3_status),
                  ConfidenceFloat(state.claimed_fault, Without(state.anomalies, i),
                                  state.gns3_status))
            /\ ~FloatLess(
                  ConfidenceFloat(state.claimed_fault, state.anomalies,
                                  state.gns3_status),
                  ConfidenceFloat(state.claimed_fault,
                                  [state.anomalies EXCEPT ![i].severity = "warning"],
                                  state.gns3_status))
            /\ result.confidence >=
                  _classify_fault(state.claimed_fault, Without(state.anomalies, i),
                                  state.gns3_status).confidence

\* A critical anomaly of the winning signature raised the confidence above
\* that of the same anomaly as a warning and above that of the list without it.
C33_Witness ==
    /\ pc = "classified"
    /\ Len(state.anomalies) = 2
    /\ state.anomalies[2].severity = "critical"
    /\ state.anomalies[2].metric \in SignatureMetrics(result.fault_type)
    /\ FloatLess(
          ConfidenceFloat(state.claimed_fault,
                          [state.anomalies EXCEPT ![2].severity = "warning"],
                          state.gns3_status),
          ConfidenceFloat(state.claimed_fault, state.anomalies, state.gns3_status))
    /\ result.confidence >
          _classify_fault(state.claimed_fault, Without(state.anomalies, 2),
                          state.gns3_status).confidence

\* The result is the one the except branch of run_healing_workflow builds.
IsErrorResult ==
    /\ result.events # <<>>
    /\ result.events[Len(result.events)].action = "workflow_error"

\* In a returned result, resolved, verification passed and no error go
\* together.
ResolvedFactsCoincide ==
    /\ (result.stage = "resolved") = result.verification_passed
    /\ result.verification_passed = (result.error = None)

\* C34 as stated: in every returned result resolved, verification passed and
\* an empty error coincide, and every other result has stage failed,
\* verification_passed false and a non-empty error text.
C34_AsStated ==
    pc = "returned" =>
        /\ ResolvedFactsCoincide
        /\ result.stage # "resolved" =>
              /\ result.stage = "failed"
              /\ ~result.verification_passed
              /\ result.error \notin {None, ""}

\* C34: in every returned result resolved, verification passed and no error
\* (None) coincide; a result of the unconfirmed, no-action or exhausted
\* terminal has stage failed, verification_passed false and the terminal's
\* text as error; a result of the except branch has stage failed,
\* verification_passed false and the text of the exception as error, which
\* is empty when the exception has no message.
C34_TerminalFacts ==
    pc = "returned" =>
        /\ ResolvedFactsCoincide
        /\ result.stage \in {"resolved", "failed"}
        /\ result.stage = "failed" =>
              /\ ~result.verification_passed
              /\ IF IsErrorResult THEN result.error = exc
                 ELSE result.error =
                         CASE LastNode = "end_unconfirmed" ->
                                 "Incident could not be confirmed with sufficient confidence"
                           [] LastNode = "end_no_action" ->
                                 "Remediation skipped due to low confidence or high risk"
                           [] LastNode = "end_failed" ->
                                 "Automated remediation unsuccessful, escalating to human operator"
        /\ result.stage = "resolved" => LastNode = "end_resolved" /\ ~IsErrorResult

\* An exception without a message was caught after a failed verification:
\* the result is failed with the empty text as error.
C34_Witness ==
    /\ pc = "returned"
    /\ IsErrorResult
    /\ result.stage = "failed"
    /\ ~result.verification_passed
    /\ result.error = ""
    /\ failedVerifications = 1

\* C35: once Detection has run, no step of the run changes fault_type; each
\* RCA leaves the plan of that type, each Remediation the actions of that
\* type's playbook and each Verification the checks of that type's criteria,
\* on the first attempt and on the retry.
C35_FaultTypeFixed ==
    [][(GraphRunning /\ GraphRunning' /\ trace # <<>>) =>
          /\ state'.fault_type = state.fault_type
          /\ (pc = "rca") =>
                state'.remediation_plan = _generate_remediation_plan(state.fault_type)
          /\ (pc = "remediation") =>
                /\ Len(state'.remediation_actions)
                      = Len(REMEDIATION_PLAYBOOKS(state.fault_type))
                /\ \A i \in 1..Len(state'.remediation_actions) :
                      state'.remediation_actions[i].action_type =
                         REMEDIATION_PLAYBOOKS(state.fault_type)[i].action_type
          /\ (pc = "verification") =>
                /\ Len(state'.verification_checks)
                      = Len(VERIFICATION_CRITERIA(state.fault_type)) + 1
                /\ \A i \in 1..Len(VERIFICATION_CRITERIA(state.fault_type)) :
                      state'.verification_checks[i].check_name =
                         VERIFICATION_CRITERIA(state.fault_type)[i].check_name]_vars

\* The second Verification has run on the type Detection classified, which is
\* not the type that was claimed.
C35_Witness ==
    /\ GraphRunning
    /\ Executions("verification") = 2
    /\ state.fault_type # initial_state.fault_type
    /\ state.fault_type = "bgp_session_instability"
    /\ state.verification_checks[1].check_name = "bgp_session_established"
    /\ state.remediation_actions[1].action_type = "clear_bgp_session"

\* No evidence for any known type: the claim names none, no anomaly's metric
\* is in a signature, and the device is not stopped.
NoEvidence(claimed_fault, anomalies, gns3_status) ==
    /\ claimed_fault \notin KnownFaultSet
    /\ \A i \in 1..Len(anomalies) :
          \A ft \in KnownFaultSet : anomalies[i].metric \notin SignatureMetrics(ft)
    /\ gns3_status # "stopped"

\* C36: _classify_fault gives unknown exactly when there is no evidence for
\* any known type, and gives a known type a confidence of at least 0.3; so in
\* a run the guard after Detection ends the run unconfirmed exactly when the
\* classified type is unknown.
C36_ThresholdNeverDecides ==
    /\ pc = "classified" =>
          /\ (result.fault_type = "unknown") =
                NoEvidence(state.claimed_fault, state.anomalies, state.gns3_status)
          /\ result.fault_type # "unknown" =>
                /\ result.confidence >= DetectionThreshold
                /\ ~FloatLess(ConfidenceFloat(state.claimed_fault, state.anomalies,
                                              state.gns3_status),
                              Literal(DetectionThreshold))
    /\ (pc = "route_detection" /\ state.fault_type # "unknown") =>
          state.detection_confidence >= DetectionThreshold
    /\ pc = "end_unconfirmed" => state.fault_type = "unknown"
    /\ pc = "rca" => state.fault_type # "unknown"

\* A run goes on to RCA with a confidence of exactly 0.3.
C36_Witness ==
    /\ pc = "rca"
    /\ trace = <<"detection">>
    /\ state.fault_type \in KnownFaultSet
    /\ state.detection_confidence = DetectionThreshold

\* The evidence of an RCA execution: one item per metric deviation carried
\* over from Detection, then at most one for BGP and one for the interfaces.
EvidenceAsGathered(s) ==
    /\ Len(s.rca_evidence) >= Len(s.metric_deviations)
    /\ Len(s.rca_evidence) <= Len(s.metric_deviations) + 2
    /\ \A i \in 1..Len(s.rca_evidence) :
          IF i <= Len(s.metric_deviations)
          THEN /\ s.rca_evidence[i].kind = "metric"
               /\ s.rca_evidence[i].metric_name = s.metric_deviations[i].metric_name
          ELSE s.rca_evidence[i].kind \in {"bgp_neighbor_down", "interface_down"}

\* C37: after an execution of RCA the run goes on to Remediation exactly when
\* RCA gathered at least one evidence item; with none the RCA confidence is
\* 0.3 and the run ends at end_no_action.
C37_RemediationIffEvidence ==
    /\ pc = "route_rca" =>
          /\ EvidenceAsGathered(state)
          /\ (RcaEdge(should_continue_after_rca(state)) = "remediation")
                = (Len(state.rca_evidence) >= 1)
          /\ Len(state.rca_evidence) = 0 =>
                /\ state.rca_confidence = RcaBaseConfidence
                /\ RcaEdge(should_continue_after_rca(state)) = "end_no_action"
    /\ (pc = "remediation" /\ LastNode = "rca") => Len(state.rca_evidence) >= 1
    /\ pc = "end_no_action" =>
          Len(state.rca_evidence) = 0 /\ state.rca_confidence = RcaBaseConfidence
    /\ (pc = "returned" /\ exc = "" /\ LastNode = "end_no_action") =>
          /\ result.stage = "failed"
          /\ result.error = "Remediation skipped due to low confidence or high risk"
          /\ Len(result.rca_evidence) = 0

\* Both outcomes: a run with a single evidence item at Remediation.
C37_Witness ==
    /\ pc = "remediation"
    /\ trace = <<"detection", "rca">>
    /\ Len(state.rca_evidence) = 1
    /\ state.rca_confidence = RcaBaseConfidence + RcaEvidenceWeight

\* A run that reached RCA with no evidence at all and ended without action.
C37_WitnessNone ==
    /\ pc = "returned"
    /\ trace = <<"detection", "rca", "end_no_action">>
    /\ result.rca_evidence = <<>>

\* The action types of a list of playbook entries or of executed actions.
ActionTypes(actions) == [i \in 1..Len(actions) |-> actions[i].action_type]

\* C38: after every execution of Remediation the executed actions are the
\* playbook actions of the incident's fault type, all of them and in playbook
\* order, each one attempted against the incident's device, whatever the risk
\* level and whatever succeeded; for a known fault type these are 2 actions.
C38_WholePlaybook ==
    (pc = "verification" /\ LastNode = "remediation") =>
        /\ ActionTypes(state.remediation_actions)
              = ActionTypes(REMEDIATION_PLAYBOOKS(state.fault_type))
        /\ \A i \in 1..Len(state.remediation_actions) :
              /\ state.remediation_actions[i].executed
              /\ state.remediation_actions[i].target_device = state.device_name
        /\ state.fault_type \in KnownFaultSet =>
              Len(state.remediation_actions) = PlaybookLength

\* A pipeline run at low risk whose two actions were attempted and both failed.
C38_Witness ==
    /\ pc = "verification"
    /\ trace = <<"detection", "rca", "remediation">>
    /\ state.remediation_risk = "low"
    /\ Len(state.remediation_actions) = PlaybookLength
    /\ ~state.remediation_actions[1].success
    /\ ~state.remediation_actions[2].success

\* The checks of the fault type's criteria all passed (the topology check is
\* the last check and is not among them).
CriteriaAllPassed(s) ==
    \A i \in 1..Len(VERIFICATION_CRITERIA(s.fault_type)) : s.verification_checks[i].passed

\* C39: an execution of Verification in which every criterion of the fault
\* type passed passes overall, whatever the topology check of the device gave.
C39_TopologyNeverDecides ==
    [][(pc = "verification" /\ pc' \in {"route_verification", "verified_without_data"}) =>
            LET checks == state'.verification_checks
            IN /\ Len(checks) = Len(VERIFICATION_CRITERIA(state.fault_type)) + 1
               /\ checks[Len(checks)].check_name = "gns3_node_status"
               /\ CriteriaAllPassed(state') =>
                     state'.verification_passed /\ state'.stage = "resolved"]_vars

\* The one criterion of cpu_spike passed, the topology check failed, and the
\* verification passed.
C39_Witness ==
    /\ pc = "route_verification"
    /\ state.fault_type = "cpu_spike"
    /\ Len(state.verification_checks) = 2
    /\ state.verification_checks[1].passed
    /\ ~state.verification_checks[2].passed
    /\ state.verification_passed

\* The registry entry of an id: in which registry it is, and what is there.
RegistryEntry(s, id) ==
    [active |-> IF id \in DOMAIN s.active_workflows
                THEN <<s.active_workflows[id]>> ELSE <<>>,
     completed |-> IF id \in DOMAIN s.completed_workflows
                   THEN <<s.completed_workflows[id]>> ELSE <<>>]

\* The threads recording the completion of their run.
Completing(p) ==
    {th \in TriggerThreads \cup WorkerThreads :
        p[th] \in {"del_active", "put_completed"}}

\* C40: of two status queries for the same id, the later one answers
\* "completed" with the same result once the earlier one did; a completed
\* entry is never changed, removed or made active again; and the steps that
\* record one incident's completion leave every other id's entry alone.
C40_CompletedStays ==
    /\ [](\A k \in 1..Len(emitted) : \A l \in (k + 1)..Len(emitted) :
             (/\ emitted[k].incident_id = emitted[l].incident_id
              /\ emitted[k].response.status = "completed")
                => emitted[l].response = emitted[k].response)
    /\ [][/\ \A id \in DOMAIN state.completed_workflows :
                /\ id \in DOMAIN state'.completed_workflows
                /\ state'.completed_workflows[id] = state.completed_workflows[id]
                /\ id \notin DOMAIN state'.active_workflows
          /\ \A th \in Completing(pc) :
                pc'[th] # pc[th] =>
                   \A id \in IncidentIds \ {IncidentId(th)} :
                      RegistryEntry(state', id) = RegistryEntry(state, id)]_vars

\* Two queries for one incident were both answered "completed" with the same
\* failed result, and the other incident completed as well.
C40_Witness ==
    /\ Len(emitted) = 2
    /\ emitted[1].incident_id = emitted[2].incident_id
    /\ emitted[1].response.status = "completed"
    /\ emitted[1].response.stage = "failed"
    /\ emitted[2] = emitted[1]
    /\ IncidentIds \subseteq DOMAIN state.completed_workflows
====
